---- MODULE Spec2Model ----
(***************************************************************************)
(* ilp-compat-plugin: the adapter that exposes an LPI1 (V1) ledger plugin  *)
(* through the LPI2 (V2) interface.  The model follows src/src/index.ts    *)
(* (convert and class Plugin) and the converters it imports.               *)
(***************************************************************************)
EXTENDS Integers, Sequences, FiniteSets, TLC

VARIABLES
  plugins,    \* per heap object: its COMPAT_SYMBOL slot, listeners, emit wrappers, request handlers
  adapters,   \* the Plugin instances constructed so far, in order of construction
  promises,   \* the promises sendData returned that were not settled when it returned
              \* them, and the promises of the data handler's invocations
  nextId,     \* the number of the next transfer id uuid() draws
  v1Info,     \* what getInfo() and getAccount() of the V1 plugin answer
  lastOp,     \* the operation that ran last, with its argument and its outcome
  calls,      \* the calls the last operation made on the V1 plugin and on the
              \* registered handler, in order
  history     \* per Plugin instance and handler kind: the last call that returned
              \* (a history variable: no operation reads it)

vars == <<plugins, adapters, promises, nextId, v1Info, lastOp, calls, history>>

\* ---------------------------------------------------------------- bounds

\* No more than this many Plugin instances are constructed.
MaxAdapters == 2

\* No more than this many transfer ids are drawn, and no more than this many
\* sendData promises are pending or tracked.
MaxSends == 2

\* The number of data handler invocations a behaviour starts.
MaxIncoming == 2

\* ---------------------------------------------------------------- values

\* The value of an empty handler slot (JavaScript undefined).
None == "none"

\* Arguments of convert whose typeof is not 'object'; each is named by its typeof.
NonObjects == {"undefined", "number", "string", "function"}

\* typeof null is 'object'.
Null == "null"

\* Objects on the heap that callers hand to convert:
\*   v1   a V1 plugin (sendTransfer, no version marker)
\*   v1b  another V1 plugin
\*   v2   a V2 plugin (constructor.version = 2; sendData, no sendTransfer)
\*   v2s  an object with constructor.version = 2 that also has sendTransfer
\*   obj  an object with neither
HeapObjects == {"v1", "v1b", "v2", "v2s", "obj"}

\* plugin.constructor.version of a heap object (0: no marker).
ObjVersion == [o \in HeapObjects |-> IF o \in {"v2", "v2s"} THEN 2 ELSE 0]

\* typeof plugin.sendTransfer === 'function' of a heap object.
ObjSendTransfer == [o \in HeapObjects |-> o \in {"v1", "v1b", "v2s"}]

\* The reference to the i-th constructed Plugin instance.
AdapterRef(i) == "adapter" \o ToString(i)

AdapterRefs == {AdapterRef(i) : i \in 1..Len(adapters)}

IsAdapter(ref) == ref \in AdapterRefs

AdapterIdx(ref) == CHOOSE i \in 1..Len(adapters) : AdapterRef(i) = ref

\* Arguments of registerDataHandler / registerMoneyHandler.
Callables == {"h1", "h2"}
NotCallables == {"undefined", "object"}
HandlerArgs == Callables \cup NotCallables

\* The five V1 events a Plugin instance subscribes to, in subscription order.
SUBSCRIBED_EVENTS ==
  <<"outgoing_fulfill", "outgoing_reject", "outgoing_cancel",
    "incoming_transfer", "incoming_prepare">>

\* ---------------------------------------------------------------- text and bytes

\* A Buffer is a sequence of bytes (0..255); text is a string.

\* The ASCII characters with codes 32 (space) to 95 (_), in code order.
AsciiLow == " !\"#$%&'()*+,-./0123456789:;<=>?@ABCDEFGHIJKLMNOPQRSTUVWXYZ[\\]^_"

\* The ASCII characters with codes 97 (a) to 126 (~), in code order.
AsciiHigh == "abcdefghijklmnopqrstuvwxyz{|}~"

CharAt(s, i) == SubSeq(s, i, i)

\* The position of character c in string s at or after position i, 0 if there is none.
RECURSIVE IndexFrom(_, _, _)
IndexFrom(s, c, i) ==
  IF i > Len(s) THEN 0
  ELSE IF CharAt(s, i) = c THEN i
  ELSE IndexFrom(s, c, i + 1)

\* The position of character c in string s, 0 if it does not occur.
IndexOf(s, c) == IndexFrom(s, c, 1)

\* The ASCII code of each character, and the character of each code.
AsciiCodes ==
  [c \in {CharAt(AsciiLow, i) : i \in 1..Len(AsciiLow)}
           \cup {CharAt(AsciiHigh, i) : i \in 1..Len(AsciiHigh)} |->
     IF IndexOf(AsciiLow, c) > 0 THEN 31 + IndexOf(AsciiLow, c) ELSE 96 + IndexOf(AsciiHigh, c)]

AsciiChars ==
  [b \in (32..126) \ {96} |->
     IF b <= 95 THEN CharAt(AsciiLow, b - 31) ELSE CharAt(AsciiHigh, b - 96)]

CharCode(c) == AsciiCodes[c]

CodeChar(b) == AsciiChars[b]

\* Buffer.from(s, 'ascii')
RECURSIVE AsciiBytes(_)
AsciiBytes(s) ==
  IF s = "" THEN <<>>
  ELSE <<CharCode(CharAt(s, 1))>> \o AsciiBytes(Tail(s))

\* buffer.toString('ascii')
RECURSIVE AsciiString(_)
AsciiString(b) ==
  IF b = <<>> THEN ""
  ELSE CodeChar(Head(b)) \o AsciiString(Tail(b))

\* The bytes that stand for a character the model's strings can hold.
IsPrintable(b) == \A i \in 1..Len(b) : b[i] \in (32..126) \ {96}

\* The base64 alphabet, by sextet value.
B64 == "ABCDEFGHIJKLMNOPQRSTUVWXYZabcdefghijklmnopqrstuvwxyz0123456789+/"

B64Chars == [sextet \in 0..63 |-> CharAt(B64, sextet + 1)]

B64Char(sextet) == B64Chars[sextet]

\* buffer.toString('base64'): standard base64 with '=' padding.
RECURSIVE toBase64(_)
toBase64(buffer) ==
  IF Len(buffer) = 0 THEN ""
  ELSE IF Len(buffer) = 1
  THEN B64Char(buffer[1] \div 4) \o B64Char((buffer[1] % 4) * 16) \o "=="
  ELSE IF Len(buffer) = 2
  THEN B64Char(buffer[1] \div 4)
         \o B64Char((buffer[1] % 4) * 16 + buffer[2] \div 16)
         \o B64Char((buffer[2] % 16) * 4) \o "="
  ELSE B64Char(buffer[1] \div 4)
         \o B64Char((buffer[1] % 4) * 16 + buffer[2] \div 16)
         \o B64Char((buffer[2] % 16) * 4 + buffer[3] \div 64)
         \o B64Char(buffer[3] % 64)
         \o toBase64(SubSeq(buffer, 4, Len(buffer)))

\* str.replace(/=$/g, ''): the pattern is anchored at the end of the string, so it
\* matches one '=' there and nothing else.
stripFinalPad(s) ==
  IF Len(s) > 0 /\ CharAt(s, Len(s)) = "=" THEN SubSeq(s, 1, Len(s) - 1) ELSE s

\* str.replace(/c/g, d) for a one-character pattern.
RECURSIVE replaceAll(_, _, _)
replaceAll(s, c, d) ==
  IF s = "" THEN ""
  ELSE (IF CharAt(s, 1) = c THEN d ELSE CharAt(s, 1)) \o replaceAll(Tail(s), c, d)

base64url(buffer) ==
  replaceAll(replaceAll(stripFinalPad(toBase64(buffer)), "+", "-"), "/", "_")

\* The sextet a character stands for when Node decodes base64: both the standard and
\* the URL-safe alphabet are accepted; -1 for any other character.
B64Values ==
  [c \in DOMAIN AsciiCodes |->
     IF c = "-" THEN 62
     ELSE IF c = "_" THEN 63
     ELSE IndexOf(B64, c) - 1]

B64Value(c) == B64Values[c]

\* The sextets Node's decoder reads: it stops at the first '=' and skips characters
\* outside the alphabet.
RECURSIVE B64Sextets(_)
B64Sextets(s) ==
  IF s = "" \/ CharAt(s, 1) = "=" THEN <<>>
  ELSE IF B64Value(CharAt(s, 1)) < 0 THEN B64Sextets(Tail(s))
  ELSE <<B64Value(CharAt(s, 1))>> \o B64Sextets(Tail(s))

RECURSIVE SextetsToBytes(_)
SextetsToBytes(x) ==
  IF Len(x) < 2 THEN <<>>
  ELSE IF Len(x) = 2 THEN <<x[1] * 4 + x[2] \div 16>>
  ELSE IF Len(x) = 3
  THEN <<x[1] * 4 + x[2] \div 16, (x[2] % 16) * 16 + x[3] \div 4>>
  ELSE <<x[1] * 4 + x[2] \div 16, (x[2] % 16) * 16 + x[3] \div 4, (x[3] % 4) * 64 + x[4]>>
         \o SextetsToBytes(SubSeq(x, 5, Len(x)))

\* Buffer.from(s, 'base64')
fromBase64(s) == SextetsToBytes(B64Sextets(s))

\* ---------------------------------------------------------------- packet codec

\* The ilp-packet library is an external codec.  The model gives each packet type
\* its type byte followed by its fields in order, every variable-length field
\* behind a one-byte length; a deserializer fails on a buffer that is not the
\* serialization of a packet of its type.  A result is [threw, error, value].

TYPE_ILP_PAYMENT == 1
TYPE_ILP_FULFILLMENT == 9
TYPE_ILP_FORWARDED_PAYMENT == 10
TYPE_ILP_PREPARE == 12
TYPE_ILP_FULFILL == 13
TYPE_ILP_REJECT == 14

\* The length of an ILP error code, in bytes.
ILP_ERROR_CODE_LENGTH == 3

Value(v) == [threw |-> FALSE, error |-> "", value |-> v]

Failure(error) == [threw |-> TRUE, error |-> error]

VarOctets(b) == <<Len(b)>> \o b

\* Reads one length-prefixed field from the front of b.
ReadVar(b) ==
  IF Len(b) >= 1 /\ Len(b) >= 1 + b[1]
  THEN [ok |-> TRUE, val |-> SubSeq(b, 2, 1 + b[1]), rest |-> SubSeq(b, 2 + b[1], Len(b))]
  ELSE [ok |-> FALSE, val |-> <<>>, rest |-> <<>>]

IsDigits(s) == s # "" /\ \A i \in 1..Len(s) : CharCode(CharAt(s, i)) \in 48..57

\* {account, data}
serializeIlpForwardedPayment(json) ==
  <<TYPE_ILP_FORWARDED_PAYMENT>> \o VarOctets(AsciiBytes(json.account)) \o VarOctets(json.data)

\* A payment or forwarded payment: {type, data: {account, data}}.
deserializeIlpPacket(binary) ==
  IF Len(binary) >= 1 /\ binary[1] \in {TYPE_ILP_PAYMENT, TYPE_ILP_FORWARDED_PAYMENT}
  THEN LET account == ReadVar(Tail(binary))
           data == ReadVar(account.rest)
       IN IF account.ok /\ IsPrintable(account.val) /\ data.ok /\ data.rest = <<>>
          THEN Value([type |-> binary[1],
                      data |-> [account |-> AsciiString(account.val), data |-> data.val]])
          ELSE Failure("Error")
  ELSE IF Len(binary) >= 1
          /\ binary[1] \in {TYPE_ILP_FULFILLMENT, TYPE_ILP_PREPARE, TYPE_ILP_FULFILL, TYPE_ILP_REJECT}
  THEN Value([type |-> binary[1], data |-> [account |-> "", data |-> Tail(binary)]])
  ELSE Failure("Error")

\* {amount, executionCondition, expiresAt, destination, data}; expiresAt is a Date,
\* a number of milliseconds, or -1 for an invalid Date.
serializeIlpPrepare(json) ==
  IF ~IsDigits(json.amount) \/ json.expiresAt < 0
  THEN Failure("Error")
  ELSE Value(<<TYPE_ILP_PREPARE>> \o VarOctets(AsciiBytes(json.amount))
               \o <<json.expiresAt>> \o VarOctets(json.executionCondition)
               \o VarOctets(AsciiBytes(json.destination)) \o VarOctets(json.data))

deserializeIlpPrepare(binary) ==
  IF Len(binary) >= 1 /\ binary[1] = TYPE_ILP_PREPARE
  THEN LET amount == ReadVar(Tail(binary))
           condition == ReadVar(Tail(amount.rest))
           destination == ReadVar(condition.rest)
           data == ReadVar(destination.rest)
       IN IF /\ amount.ok /\ IsPrintable(amount.val) /\ IsDigits(AsciiString(amount.val))
             /\ Len(amount.rest) >= 1
             /\ condition.ok
             /\ destination.ok /\ IsPrintable(destination.val)
             /\ data.ok /\ data.rest = <<>>
          THEN Value([amount |-> AsciiString(amount.val),
                      executionCondition |-> condition.val,
                      expiresAt |-> Head(amount.rest),
                      destination |-> AsciiString(destination.val),
                      data |-> data.val])
          ELSE Failure("Error")
  ELSE Failure("Error")

\* {fulfillment, data}
serializeIlpFulfill(json) ==
  <<TYPE_ILP_FULFILL>> \o VarOctets(json.fulfillment) \o VarOctets(json.data)

deserializeIlpFulfill(binary) ==
  IF Len(binary) >= 1 /\ binary[1] = TYPE_ILP_FULFILL
  THEN LET fulfillment == ReadVar(Tail(binary))
           data == ReadVar(fulfillment.rest)
       IN IF fulfillment.ok /\ data.ok /\ data.rest = <<>>
          THEN Value([fulfillment |-> fulfillment.val, data |-> data.val])
          ELSE Failure("Error")
  ELSE Failure("Error")

\* {data}: the legacy fulfillment data packet
serializeIlpFulfillment(json) ==
  <<TYPE_ILP_FULFILLMENT>> \o VarOctets(json.data)

deserializeIlpFulfillment(binary) ==
  IF Len(binary) >= 1 /\ binary[1] = TYPE_ILP_FULFILLMENT
  THEN LET data == ReadVar(Tail(binary))
       IN IF data.ok /\ data.rest = <<>>
          THEN Value([data |-> data.val])
          ELSE Failure("Error")
  ELSE Failure("Error")

\* {code, triggeredBy, message, data}: fails unless the code is three bytes long.
serializeIlpReject(json) ==
  IF Len(json.code) # ILP_ERROR_CODE_LENGTH
  THEN Failure("Error")
  ELSE Value(<<TYPE_ILP_REJECT>> \o AsciiBytes(json.code)
               \o VarOctets(AsciiBytes(json.triggeredBy))
               \o VarOctets(AsciiBytes(json.message)) \o VarOctets(json.data))

deserializeIlpReject(binary) ==
  IF Len(binary) >= 1 + ILP_ERROR_CODE_LENGTH /\ binary[1] = TYPE_ILP_REJECT
  THEN LET code == SubSeq(binary, 2, 1 + ILP_ERROR_CODE_LENGTH)
           triggeredBy == ReadVar(SubSeq(binary, 2 + ILP_ERROR_CODE_LENGTH, Len(binary)))
           message == ReadVar(triggeredBy.rest)
           data == ReadVar(message.rest)
       IN IF /\ IsPrintable(code)
             /\ triggeredBy.ok /\ IsPrintable(triggeredBy.val)
             /\ message.ok /\ IsPrintable(message.val)
             /\ data.ok /\ data.rest = <<>>
          THEN Value([code |-> AsciiString(code),
                      triggeredBy |-> AsciiString(triggeredBy.val),
                      message |-> AsciiString(message.val),
                      data |-> data.val])
          ELSE Failure("Error")
  ELSE Failure("Error")

\* ---------------------------------------------------------------- converters

\* JavaScript undefined where a string is expected.
Undefined == "undefined"

\* date.toISOString() of a Date of ms milliseconds after the epoch (ms < 1000).
toISOString(ms) ==
  "1970-01-01T00:00:00."
    \o (IF ms < 10 THEN "00" ELSE IF ms < 100 THEN "0" ELSE "") \o ToString(ms) \o "Z"

\* A variant of ilpPrepareToLpi1Transfer that writes the expiry without leading
\* zeros in the milliseconds.
ilpPrepareToLpi1TransferShortDate(ilpPrepare, id) ==
  LET ilp == serializeIlpForwardedPayment(
               [account |-> ilpPrepare.destination, data |-> ilpPrepare.data])
  IN [id |-> id,
      amount |-> ilpPrepare.amount,
      ilp |-> base64url(ilp),
      executionCondition |-> base64url(ilpPrepare.executionCondition),
      expiresAt |-> "1970-01-01T00:00:00." \o ToString(ilpPrepare.expiresAt) \o "Z",
      to |-> Undefined, from |-> Undefined, ledger |-> Undefined]

\* The V1 transfer record of a prepare packet; id is the uuid drawn for it.
ilpPrepareToLpi1Transfer(ilpPrepare, id) ==
  LET ilp == serializeIlpForwardedPayment(
               [account |-> ilpPrepare.destination, data |-> ilpPrepare.data])
  IN [id |-> id,
      amount |-> ilpPrepare.amount,
      ilp |-> base64url(ilp),
      executionCondition |-> base64url(ilpPrepare.executionCondition),
      expiresAt |-> toISOString(ilpPrepare.expiresAt),
      to |-> Undefined, from |-> Undefined, ledger |-> Undefined]

\* The fulfill packet of a V1 fulfillment; ilp is '' when the event carries none.
lpi1FulfillmentToIlpFulfill(fulfillment, ilp) ==
  LET decoded == IF ilp # ""
                 THEN deserializeIlpFulfillment(fromBase64(ilp))
                 ELSE Value([data |-> <<>>])
  IN IF decoded.threw
     THEN Failure(decoded.error)
     ELSE IF fulfillment = Undefined
     THEN Failure("TypeError")
     ELSE Value(serializeIlpFulfill(
                  [fulfillment |-> fromBase64(fulfillment), data |-> decoded.value.data]))

\* additional_info of a V1 rejection reason: absent, null, an object {data, message},
\* or a string that is the JSON text of such an object (parses) or is not JSON.
AdditionalInfo(kind, parses, data, message) ==
  [kind |-> kind, parses |-> parses, data |-> data, message |-> message]

NoInfo == AdditionalInfo("undefined", FALSE, "", "")

\* Lines 151 to 160: the info object the data and the message are read from.
rejectionInfo(additionalInfo) ==
  IF additionalInfo.kind = "string"
  THEN IF additionalInfo.parses THEN [additionalInfo EXCEPT !.kind = "object"] ELSE NoInfo
  ELSE IF additionalInfo.kind \in {"object", "null"}
  THEN additionalInfo
  ELSE NoInfo

\* The reject packet of a V1 rejection reason.
lpi1RejectionToIlpReject(reason) ==
  IF ~reason.defined
  THEN Failure("TypeError")
  ELSE LET info == rejectionInfo(reason.additional_info)
       IN IF info.kind = "null"
          THEN Failure("TypeError")
          ELSE IF reason.triggered_by = Undefined \/ reason.code = Undefined
          THEN Failure("TypeError")
          ELSE serializeIlpReject(
                 [code |-> reason.code,
                  triggeredBy |-> reason.triggered_by,
                  message |-> IF reason.message # "" THEN reason.message ELSE info.message,
                  data |-> IF info.data # "" THEN fromBase64(info.data) ELSE <<>>])

\* new Date(s) for the text of a date: the milliseconds of an ISO text, -1 (an
\* invalid Date) for any other text.
DateOf(s) ==
  IF \E ms \in 0..255 : toISOString(ms) = s
  THEN CHOOSE ms \in 0..255 : toISOString(ms) = s
  ELSE -1

\* An incoming V1 transfer record; ilp is '' when the transfer carries no packet.
Transfer(id, amount, ilp, executionCondition, expiresAt) ==
  [id |-> id, amount |-> amount, ilp |-> ilp,
   executionCondition |-> executionCondition, expiresAt |-> expiresAt]

\* The prepare packet of an incoming V1 transfer.
lpi1TransferToIlpPrepare(lpi1Transfer) ==
  IF lpi1Transfer.ilp = ""
  THEN Failure("TypeError")
  ELSE LET deserializedPacket == deserializeIlpPacket(fromBase64(lpi1Transfer.ilp)) IN
       IF deserializedPacket.threw
       THEN Failure(deserializedPacket.error)
       ELSE IF deserializedPacket.value.type
                 \notin {TYPE_ILP_PAYMENT, TYPE_ILP_FORWARDED_PAYMENT}
       THEN Failure("TypeError")
       ELSE serializeIlpPrepare(
              [amount |-> lpi1Transfer.amount,
               executionCondition |-> fromBase64(lpi1Transfer.executionCondition),
               expiresAt |-> DateOf(lpi1Transfer.expiresAt),
               destination |-> deserializedPacket.value.data.account,
               data |-> deserializedPacket.value.data.data])

\* The arguments of fulfillCondition for a fulfill packet.
ilpFulfillToLpi1Fulfillment(packet) ==
  LET decoded == deserializeIlpFulfill(packet) IN
    IF decoded.threw
    THEN Failure(decoded.error)
    ELSE Value([fulfillment |-> base64url(decoded.value.fulfillment),
                ilp |-> base64url(serializeIlpFulfillment([data |-> decoded.value.data]))])

\* The names of the error codes.
ERROR_NAMES ==
  [code \in {"F00", "F01", "F02", "F03", "F04", "F05", "F06", "F07", "F99",
             "T00", "T01", "T02", "T03", "T04", "T05", "T99",
             "R00", "R01", "R02", "R99"} |->
     CASE code = "F00" -> "Bad Request"
       [] code = "F01" -> "Invalid Packet"
       [] code = "F02" -> "Unreachable"
       [] code = "F03" -> "Invalid Amount"
       [] code = "F04" -> "Insufficient Destination Amount"
       [] code = "F05" -> "Wrong Condition"
       [] code = "F06" -> "Unexpected Payment"
       [] code = "F07" -> "Cannot Receive"
       [] code = "T00" -> "Internal Error"
       [] code = "T01" -> "Ledger Unreachable"
       [] code = "T02" -> "Ledger Busy"
       [] code = "T03" -> "Connector Busy"
       [] code = "T04" -> "Insufficient Liquidity"
       [] code = "T05" -> "Rate Limited"
       [] code = "R00" -> "Transfer Timed Out"
       [] code = "R01" -> "Insufficient Source Amount"
       [] code = "R02" -> "Insufficient Timeout"
       [] OTHER -> "Application Error"]

\* A rejection reason the adapter hands to rejectIncomingTransfer (triggered_at,
\* the time of the call, is left out).
Rejection(code, name, message, triggered_by, additional_info) ==
  [defined |-> TRUE, code |-> code, name |-> name, message |-> message,
   triggered_by |-> triggered_by, forwarded_by |-> "",
   additional_info |-> additional_info]

\* The V1 rejection reason of a reject packet; ERROR_NAMES[code] is undefined for a
\* code the table does not hold.
ilpRejectToLpi1Rejection(packet) ==
  LET decoded == deserializeIlpReject(packet) IN
    IF decoded.threw
    THEN Failure(decoded.error)
    ELSE Value(Rejection(decoded.value.code,
                         IF decoded.value.code \in DOMAIN ERROR_NAMES
                         THEN ERROR_NAMES[decoded.value.code]
                         ELSE Undefined,
                         decoded.value.message,
                         decoded.value.triggeredBy,
                         AdditionalInfo("object", FALSE, base64url(decoded.value.data),
                                        decoded.value.message)))

\* ---------------------------------------------------------------- outcomes

Returned(name, adapter, arg, result) ==
  [name |-> name, adapter |-> adapter, arg |-> arg, threw |-> FALSE, result |-> result]

Threw(name, adapter, arg, error) ==
  [name |-> name, adapter |-> adapter, arg |-> arg, threw |-> TRUE, result |-> error]

\* What a promise is settled with: a packet (a Buffer) or an error.
NoValue == [type |-> "none", bytes |-> <<>>, error |-> ""]

PacketValue(bytes) == [type |-> "packet", bytes |-> bytes, error |-> ""]

ErrorValue(error) == [type |-> "error", bytes |-> <<>>, error |-> error]

\* A variant of settle that settles a promise again.
settleAgain(ps, i, state, value) ==
  [ps EXCEPT ![i].state = state, ![i].value = value]

\* resolve(value) / reject(error) of promise i: a settled promise stays as it is.
settle(ps, i, state, value) ==
  IF ps[i].state = "pending"
  THEN [ps EXCEPT ![i].state = state, ![i].value = value]
  ELSE ps

\* ---------------------------------------------------------------- convert

typeOf(v) == IF v \in NonObjects THEN v ELSE "object"

\* plugin.constructor.version; Plugin.version is 2.
constructorVersion(plugin) ==
  IF IsAdapter(plugin) THEN 2 ELSE ObjVersion[plugin]

\* A variant of isV2Plugin that reads a marker no plugin carries.
isV2PluginByOtherMarker(plugin) == FALSE

isV2Plugin(plugin) == constructorVersion(plugin) = 2

\* A variant of hasSendTransfer that accepts every object.
hasSendTransferUnchecked(oldPlugin) == TRUE

hasSendTransfer(oldPlugin) ==
  IF IsAdapter(oldPlugin) THEN FALSE ELSE ObjSendTransfer[oldPlugin]

\* A variant of cachedInstance that never finds the cached instance.
cachedInstanceForgotten(oldPlugin) == 0

\* oldPlugin[COMPAT_SYMBOL]: the index of the cached instance, 0 if there is none.
cachedInstance(oldPlugin) ==
  IF IsAdapter(oldPlugin) THEN 0 ELSE plugins[oldPlugin].compat

\* The transfers table of a new instance: no key.
NoTransfers == [id \in {} |-> 0]

\* new Plugin(oldPlugin): the new instance.
\* listeners is the set of event types the host has attached a listener to with the
\* instance's on (Plugin extends EventEmitter): none after construction.
NewPlugin(oldPlugin) ==
  [oldPlugin |-> oldPlugin, transfers |-> NoTransfers,
   _dataHandler |-> None, _moneyHandler |-> None, listeners |-> {}]

\* What the constructor does to oldPlugin: it wraps emit, subscribes to the five
\* events and registers the request handler; `this` is the new instance's index.
Subscribed(p, this) ==
  [p EXCEPT
    !.emitWrappers = Append(@, this),
    !.listeners = @ \o [k \in 1..Len(SUBSCRIBED_EVENTS) |->
                          [event |-> SUBSCRIBED_EVENTS[k], adapter |-> this]],
    !.requestHandlers = Append(@, this)]

convert(oldPlugin) ==
  /\ calls' = <<>>
  /\ UNCHANGED <<promises, nextId, v1Info>>
  /\ IF typeOf(oldPlugin) # "object"
     THEN /\ lastOp' = Threw("convert", 0, oldPlugin, "TypeError")
          /\ UNCHANGED <<plugins, adapters>>
     ELSE IF oldPlugin = Null
     THEN \* Plugin.isV2Plugin reads plugin.constructor of null
          /\ lastOp' = Threw("convert", 0, oldPlugin, "TypeError")
          /\ UNCHANGED <<plugins, adapters>>
     ELSE IF isV2Plugin(oldPlugin)
     THEN /\ lastOp' = Returned("convert", 0, oldPlugin, oldPlugin)
          /\ UNCHANGED <<plugins, adapters>>
     ELSE IF ~hasSendTransfer(oldPlugin)
     THEN /\ lastOp' = Threw("convert", 0, oldPlugin, "TypeError")
          /\ UNCHANGED <<plugins, adapters>>
     ELSE IF cachedInstance(oldPlugin) # 0
     THEN /\ lastOp' = Returned("convert", 0, oldPlugin, AdapterRef(cachedInstance(oldPlugin)))
          /\ UNCHANGED <<plugins, adapters>>
     ELSE LET this == Len(adapters) + 1 IN
          /\ this <= MaxAdapters
          /\ adapters' = Append(adapters, NewPlugin(oldPlugin))
          /\ plugins' = [plugins EXCEPT
                           ![oldPlugin] = [Subscribed(@, this) EXCEPT !.compat = this]]
          /\ lastOp' = Returned("convert", 0, oldPlugin, AdapterRef(this))

\* ---------------------------------------------------------------- handler slots

\* A variant of registerDataHandler that replaces a handler that is set.
registerDataHandlerReplacing(a, handler) ==
  /\ calls' = <<>>
  /\ UNCHANGED <<plugins, promises, nextId, v1Info>>
  /\ IF handler \notin Callables
     THEN /\ lastOp' = Threw("registerDataHandler", a, handler, "InvalidFieldsError")
          /\ UNCHANGED adapters
     ELSE /\ adapters' = [adapters EXCEPT ![a]._dataHandler = handler]
          /\ lastOp' = Returned("registerDataHandler", a, handler, "undefined")

\* A variant of registerDataHandler that stores the argument before it checks it.
registerDataHandlerStoringFirst(a, handler) ==
  /\ calls' = <<>>
  /\ UNCHANGED <<plugins, promises, nextId, v1Info>>
  /\ IF adapters[a]._dataHandler # None
     THEN /\ lastOp' = Threw("registerDataHandler", a, handler, "DataHandlerAlreadyRegisteredError")
          /\ UNCHANGED adapters
     ELSE /\ adapters' = [adapters EXCEPT ![a]._dataHandler = handler]
          /\ lastOp' = IF handler \notin Callables
                       THEN Threw("registerDataHandler", a, handler, "InvalidFieldsError")
                       ELSE Returned("registerDataHandler", a, handler, "undefined")

registerDataHandler(a, handler) ==
  /\ calls' = <<>>
  /\ UNCHANGED <<plugins, promises, nextId, v1Info>>
  /\ IF adapters[a]._dataHandler # None
     THEN /\ lastOp' = Threw("registerDataHandler", a, handler, "DataHandlerAlreadyRegisteredError")
          /\ UNCHANGED adapters
     ELSE IF handler \notin Callables
     THEN /\ lastOp' = Threw("registerDataHandler", a, handler, "InvalidFieldsError")
          /\ UNCHANGED adapters
     ELSE /\ adapters' = [adapters EXCEPT ![a]._dataHandler = handler]
          /\ lastOp' = Returned("registerDataHandler", a, handler, "undefined")

\* A variant of deregisterDataHandler that fails when no handler is set.
deregisterDataHandlerStrict(a) ==
  /\ calls' = <<>>
  /\ UNCHANGED <<plugins, promises, nextId, v1Info>>
  /\ IF adapters[a]._dataHandler = None
     THEN /\ lastOp' = Threw("deregisterDataHandler", a, "", "Error")
          /\ UNCHANGED adapters
     ELSE /\ adapters' = [adapters EXCEPT ![a]._dataHandler = None]
          /\ lastOp' = Returned("deregisterDataHandler", a, "", "undefined")

deregisterDataHandler(a) ==
  /\ adapters' = [adapters EXCEPT ![a]._dataHandler = None]
  /\ lastOp' = Returned("deregisterDataHandler", a, "", "undefined")
  /\ calls' = <<>>
  /\ UNCHANGED <<plugins, promises, nextId, v1Info>>

\* A variant of registerMoneyHandler that tests the data handler's slot.
registerMoneyHandlerOnDataSlot(a, handler) ==
  /\ calls' = <<>>
  /\ UNCHANGED <<plugins, promises, nextId, v1Info>>
  /\ IF adapters[a]._dataHandler # None
     THEN /\ lastOp' = Threw("registerMoneyHandler", a, handler, "MoneyHandlerAlreadyRegisteredError")
          /\ UNCHANGED adapters
     ELSE IF handler \notin Callables
     THEN /\ lastOp' = Threw("registerMoneyHandler", a, handler, "InvalidFieldsError")
          /\ UNCHANGED adapters
     ELSE /\ adapters' = [adapters EXCEPT ![a]._moneyHandler = handler]
          /\ lastOp' = Returned("registerMoneyHandler", a, handler, "undefined")

registerMoneyHandler(a, handler) ==
  /\ calls' = <<>>
  /\ UNCHANGED <<plugins, promises, nextId, v1Info>>
  /\ IF adapters[a]._moneyHandler # None
     THEN /\ lastOp' = Threw("registerMoneyHandler", a, handler, "MoneyHandlerAlreadyRegisteredError")
          /\ UNCHANGED adapters
     ELSE IF handler \notin Callables
     THEN /\ lastOp' = Threw("registerMoneyHandler", a, handler, "InvalidFieldsError")
          /\ UNCHANGED adapters
     ELSE /\ adapters' = [adapters EXCEPT ![a]._moneyHandler = handler]
          /\ lastOp' = Returned("registerMoneyHandler", a, handler, "undefined")

deregisterMoneyHandler(a) ==
  /\ adapters' = [adapters EXCEPT ![a]._moneyHandler = None]
  /\ lastOp' = Returned("deregisterMoneyHandler", a, "", "undefined")
  /\ calls' = <<>>
  /\ UNCHANGED <<plugins, promises, nextId, v1Info>>

\* ---------------------------------------------------------------- the V1 plugin

\* getInfo() and getAccount() of the V1 plugin: a ledger with a default connector and
\* one without, with a positive and with a zero currency scale.
V1Infos ==
  { [prefix |-> "g.a.", connectors |-> <<"g.a.conn">>, account |-> "g.a.me",
     currencyScale |-> 2, currency |-> "USD"],
    [prefix |-> "g.a.", connectors |-> <<>>, account |-> "g.a.me",
     currencyScale |-> 0, currency |-> ""] }

Call(fn) == [fn |-> fn]

\* A variant of TransferId in which uuid() returns the same id every time.
TransferIdReused(n) == "id"

\* The id uuid() returns on its n-th call.
TransferId(n) == "id" \o ToString(n)

\* ---------------------------------------------------------------- routing

startsWith(s, prefix) == Len(s) >= Len(prefix) /\ SubSeq(s, 1, Len(prefix)) = prefix

\* s.substring(n)
substring(s, n) == SubSeq(s, n + 1, Len(s))

\* s.split('.')[0]
firstSegment(s) ==
  IF IndexOf(s, ".") = 0 THEN s ELSE SubSeq(s, 1, IndexOf(s, ".") - 1)

\* A variant of _getTo without the test of line 233: it returns what it found.
_getToUnchecked(destination) ==
  LET prefix == v1Info.prefix
      local == destination # "" /\ startsWith(destination, prefix)
      to == IF local
            THEN prefix \o firstSegment(substring(destination, Len(prefix)))
            ELSE IF Len(v1Info.connectors) > 0 THEN v1Info.connectors[1] ELSE Undefined
      made == IF local THEN <<Call("getInfo")>> ELSE <<Call("getInfo"), Call("getInfo")>>
  IN [threw |-> FALSE, error |-> "", value |-> to, calls |-> made]

\* A variant of _getTo that keeps the whole destination of a local address.
_getToWholeDestination(destination) ==
  LET prefix == v1Info.prefix
      local == destination # "" /\ startsWith(destination, prefix)
      to == IF local
            THEN destination
            ELSE IF Len(v1Info.connectors) > 0 THEN v1Info.connectors[1] ELSE Undefined
      made == IF local THEN <<Call("getInfo")>> ELSE <<Call("getInfo"), Call("getInfo")>>
  IN IF to = Undefined \/ to = ""
     THEN [threw |-> TRUE, error |-> "Error", value |-> "", calls |-> made]
     ELSE [threw |-> FALSE, error |-> "", value |-> to, calls |-> made]

\* _getTo(destination); destination is '' when it is absent (both are falsy).
\* The result carries the getInfo() calls made.
_getTo(destination) ==
  LET prefix == v1Info.prefix
      local == destination # "" /\ startsWith(destination, prefix)
      to == IF local
            THEN prefix \o firstSegment(substring(destination, Len(prefix)))
            ELSE IF Len(v1Info.connectors) > 0 THEN v1Info.connectors[1] ELSE Undefined
      made == IF local THEN <<Call("getInfo")>> ELSE <<Call("getInfo"), Call("getInfo")>>
  IN IF to = Undefined \/ to = ""
     THEN [threw |-> TRUE, error |-> "Error", value |-> "", calls |-> made]
     ELSE [threw |-> FALSE, error |-> "", value |-> to, calls |-> made]

\* ---------------------------------------------------------------- sendData

\* The fulfillment of a peer protocol response: Buffer.alloc(32).
PEER_PROTOCOL_FULFILLMENT == [i \in 1..32 |-> 0]

\* The currency scale written when getInfo() reports none.
DEFAULT_CURRENCY_SCALE == 9

\* A variant of _getIldcpResponse that answers with the bare currency data and a
\* fulfillment of its own.
_getIldcpResponseBare ==
  serializeIlpFulfill([fulfillment |-> [i \in 1..32 |-> 1],
                       data |-> VarOctets(AsciiBytes(v1Info.currency))])

_getIldcpResponse ==
  LET info == v1Info
      clientName == v1Info.account
      ildcpResponse ==
        VarOctets(AsciiBytes(clientName))
          \o <<IF info.currencyScale # 0 THEN info.currencyScale ELSE DEFAULT_CURRENCY_SCALE>>
          \o VarOctets(AsciiBytes(info.currency))
  IN serializeIlpFulfill([fulfillment |-> PEER_PROTOCOL_FULFILLMENT, data |-> ildcpResponse])

\* The outcome of a sendData call: the state of the promise it returned at the end
\* of the call, and the index of that promise in promises (0: not kept there).
SendResult(a, data, state, value, promise) ==
  [name |-> "sendData", adapter |-> a, data |-> data, state |-> state,
   value |-> value, promise |-> promise]

\* What the V1 plugin does when sendTransfer or sendRequest is called: it throws, or
\* it returns a promise that is settled later.
V1Behaviours == {"throws", "promise"}

\* Lines 138 to 156: data is a prepare packet.
sendPrepare(a, data, behaviour) ==
  LET decoded == deserializeIlpPrepare(data.bytes) IN
  IF decoded.threw
  THEN /\ lastOp' = SendResult(a, data, "rejected", ErrorValue(decoded.error), 0)
       /\ calls' = <<>>
       /\ UNCHANGED <<adapters, promises, nextId>>
  ELSE LET ilpPrepare == decoded.value IN
  IF ilpPrepare.destination = "peer.config"
  THEN /\ lastOp' = SendResult(a, data, "fulfilled", PacketValue(_getIldcpResponse), 0)
       /\ calls' = <<Call("getInfo"), Call("getAccount")>>
       /\ UNCHANGED <<adapters, promises, nextId>>
  ELSE LET id == TransferId(nextId)
           to == _getTo(ilpPrepare.destination)
           lpi1Transfer == [ilpPrepareToLpi1Transfer(ilpPrepare, id) EXCEPT
                              !.to = to.value,
                              !.from = v1Info.account,
                              !.ledger = v1Info.prefix]
           promise == Len(promises) + 1
       IN /\ nextId <= MaxSends
          /\ nextId' = nextId + 1
          /\ IF to.threw
             THEN /\ lastOp' = SendResult(a, data, "rejected", ErrorValue(to.error), 0)
                  /\ calls' = to.calls
                  /\ UNCHANGED <<adapters, promises>>
             ELSE /\ Len(promises) < MaxSends
                  /\ adapters' = [adapters EXCEPT
                       ![a].transfers =
                          [k \in DOMAIN @ \cup {id} |-> IF k = id THEN promise ELSE @[k]]]
                  /\ calls' = to.calls \o <<Call("getAccount"), Call("getInfo"),
                                            [fn |-> "sendTransfer", transfer |-> lpi1Transfer]>>
                  /\ IF behaviour = "throws"
                     THEN /\ promises' = Append(promises,
                               [kind |-> "prepare", adapter |-> a, id |-> id,
                                state |-> "rejected", value |-> ErrorValue("SendTransferError")])
                          /\ lastOp' = SendResult(a, data, "rejected",
                                                  ErrorValue("SendTransferError"), promise)
                     ELSE /\ promises' = Append(promises,
                               [kind |-> "prepare", adapter |-> a, id |-> id,
                                state |-> "pending", value |-> NoValue])
                          /\ lastOp' = SendResult(a, data, "pending", NoValue, promise)

\* Lines 158 to 163: data is not a prepare packet; the call of sendRequest.
sendLegacyRequest(a, data, behaviour) ==
  LET to == _getTo("")
      message == [from |-> v1Info.account, to |-> to.value, ledger |-> v1Info.prefix,
                  ilp |-> base64url(data.bytes)]
      promise == Len(promises) + 1
  IN /\ UNCHANGED <<adapters, nextId>>
     /\ IF to.threw
        THEN /\ lastOp' = SendResult(a, data, "rejected", ErrorValue(to.error), 0)
             /\ calls' = <<Call("getAccount")>> \o to.calls
             /\ UNCHANGED promises
        ELSE /\ calls' = <<Call("getAccount")>> \o to.calls
                           \o <<Call("getInfo"), [fn |-> "sendRequest", message |-> message]>>
             /\ IF behaviour = "throws"
                THEN /\ lastOp' = SendResult(a, data, "rejected",
                                             ErrorValue("SendRequestError"), 0)
                     /\ UNCHANGED promises
                ELSE /\ Len(promises) < MaxSends
                     /\ promises' = Append(promises,
                          [kind |-> "request", adapter |-> a, id |-> "",
                           state |-> "pending", value |-> NoValue])
                     /\ lastOp' = SendResult(a, data, "pending", NoValue, promise)

\* A variant of sendData without the Buffer test.
sendDataUnchecked(a, data, behaviour) ==
  /\ UNCHANGED <<plugins, v1Info>>
  /\ IF Len(data.bytes) >= 1 /\ data.bytes[1] = TYPE_ILP_PREPARE
     THEN sendPrepare(a, data, behaviour)
     ELSE sendLegacyRequest(a, data, behaviour)

sendData(a, data, behaviour) ==
  /\ UNCHANGED <<plugins, v1Info>>
  /\ IF ~data.isBuffer
     THEN /\ lastOp' = SendResult(a, data, "rejected", ErrorValue("TypeError"), 0)
          /\ calls' = <<>>
          /\ UNCHANGED <<adapters, promises, nextId>>
     ELSE IF Len(data.bytes) >= 1 /\ data.bytes[1] = TYPE_ILP_PREPARE
     THEN sendPrepare(a, data, behaviour)
     ELSE sendLegacyRequest(a, data, behaviour)

\* A variant of sendTransferSettles that takes the completion of sendTransfer for
\* the answer: it resolves the send with an empty Buffer.
sendTransferSettlesResolving(i, ok) ==
  /\ promises[i].kind = "prepare"
  /\ promises' = IF ok
                 THEN settle(promises, i, "fulfilled", PacketValue(<<>>))
                 ELSE settle(promises, i, "rejected", ErrorValue("SendTransferError"))
  /\ lastOp' = [name |-> "sendTransferSettles", promise |-> i, ok |-> ok]
  /\ calls' = <<>>
  /\ UNCHANGED <<plugins, adapters, nextId, v1Info>>

\* A variant of sendTransferSettles without the catch: a rejection of the promise
\* sendTransfer returned reaches nobody.
sendTransferSettlesUnhandled(i, ok) ==
  /\ promises[i].kind = "prepare"
  /\ promises' = promises
  /\ lastOp' = [name |-> "sendTransferSettles", promise |-> i, ok |-> ok]
  /\ calls' = <<>>
  /\ UNCHANGED <<plugins, adapters, nextId, v1Info>>

\* The promise sendTransfer returned for send i is settled: a rejection goes to
\* reject (line 155), which does nothing to a promise that is settled already.
sendTransferSettles(i, ok) ==
  /\ promises[i].kind = "prepare"
  /\ promises' = IF ok
                 THEN promises
                 ELSE settle(promises, i, "rejected", ErrorValue("SendTransferError"))
  /\ lastOp' = [name |-> "sendTransferSettles", promise |-> i, ok |-> ok]
  /\ calls' = <<>>
  /\ UNCHANGED <<plugins, adapters, nextId, v1Info>>

\* A response message of sendRequest: undefined, or {ilp, custom}, where ilp is ''
\* when absent and custom is absent, an object (customJson is its JSON text, '{}'
\* for an object with no key) or a string.
ResponseMessage(defined, ilp, customKind, customJson) ==
  [defined |-> defined, ilp |-> ilp, customKind |-> customKind, customJson |-> customJson]

\* A variant of legacyResponse that looks at custom first.
legacyResponseCustomFirst(responseMessage) ==
  IF ~responseMessage.defined
  THEN Failure("TypeError")
  ELSE IF responseMessage.customKind = "object" /\ responseMessage.customJson # "{}"
  THEN Value(AsciiBytes(responseMessage.customJson))
  ELSE IF responseMessage.ilp # ""
  THEN Value(fromBase64(responseMessage.ilp))
  ELSE Value(<<>>)

\* Lines 165 to 177: what sendData returns for a response message.
legacyResponse(responseMessage) ==
  IF ~responseMessage.defined
  THEN Failure("TypeError")
  ELSE IF responseMessage.ilp # ""
  THEN Value(fromBase64(responseMessage.ilp))
  ELSE IF responseMessage.customKind = "object" /\ responseMessage.customJson # "{}"
  THEN Value(AsciiBytes(responseMessage.customJson))
  ELSE Value(<<>>)

\* The expiry of the transfer of send i passes: sendData sets no timer (lines 151 to
\* 156), so no code of the Plugin instance runs.
expiryPasses(i) ==
  /\ promises[i].kind = "prepare"
  /\ lastOp' = [name |-> "expiryPasses", promise |-> i]
  /\ calls' = <<>>
  /\ UNCHANGED <<plugins, adapters, promises, nextId, v1Info>>

\* The promise sendRequest returned is settled (line 158 resumes).
sendRequestSettles(i, ok, responseMessage) ==
  /\ promises[i].kind = "request"
  /\ promises[i].state = "pending"
  /\ LET r == legacyResponse(responseMessage) IN
     promises' =
       IF ~ok
       THEN settle(promises, i, "rejected", ErrorValue("SendRequestError"))
       ELSE IF r.threw
       THEN settle(promises, i, "rejected", ErrorValue(r.error))
       ELSE settle(promises, i, "fulfilled", PacketValue(r.value))
  /\ lastOp' = [name |-> "sendRequestSettles", promise |-> i, ok |-> ok,
                response |-> responseMessage]
  /\ calls' = <<>>
  /\ UNCHANGED <<plugins, adapters, nextId, v1Info>>

\* ---------------------------------------------------------------- V1 events

\* An event the V1 plugin emits: its type, the id of the transfer it carries, and
\* the fulfillment and ilp (outgoing_fulfill) or the reason (outgoing_reject,
\* outgoing_cancel) that follow.
Event(type, id, fulfillment, ilp, reason) ==
  [type |-> type, id |-> id, fulfillment |-> fulfillment, ilp |-> ilp, reason |-> reason]

Reason(code, message, triggered_by, additional_info) ==
  [defined |-> TRUE, code |-> code, message |-> message, triggered_by |-> triggered_by,
   additional_info |-> additional_info]

\* The event carries no reason (undefined).
NoReason == [Reason(Undefined, "", Undefined, NoInfo) EXCEPT !.defined = FALSE]

\* The state the listeners of one emit call run on: the promises, whether a
\* listener has thrown (emit then calls no further listener), and the calls the
\* listeners have made.
Running(ps) == [promises |-> ps, threw |-> FALSE, error |-> "", calls |-> <<>>]

Tracked(a, id) == id \in DOMAIN adapters[a].transfers

\* A variant of _handleOutgoingFulfill without the lookup guard: it reads resolve of
\* an entry that is not there.
_handleOutgoingFulfillUnguarded(a, ev, st) ==
  IF ~Tracked(a, ev.id)
  THEN [st EXCEPT !.threw = TRUE, !.error = "TypeError"]
  ELSE LET ilpFulfill == lpi1FulfillmentToIlpFulfill(ev.fulfillment, ev.ilp) IN
       IF ilpFulfill.threw
       THEN [st EXCEPT !.threw = TRUE, !.error = ilpFulfill.error]
       ELSE [st EXCEPT !.promises = settle(@, adapters[a].transfers[ev.id], "fulfilled",
                                           PacketValue(ilpFulfill.value))]

_handleOutgoingFulfill(a, ev, st) ==
  IF ~Tracked(a, ev.id)
  THEN st
  ELSE LET ilpFulfill == lpi1FulfillmentToIlpFulfill(ev.fulfillment, ev.ilp) IN
       IF ilpFulfill.threw
       THEN [st EXCEPT !.threw = TRUE, !.error = ilpFulfill.error]
       ELSE [st EXCEPT !.promises = settle(@, adapters[a].transfers[ev.id], "fulfilled",
                                           PacketValue(ilpFulfill.value))]

\* A variant of _handleOutgoingReject that hands the reject packet to reject.
_handleOutgoingRejectRejecting(a, ev, st) ==
  IF ~Tracked(a, ev.id)
  THEN st
  ELSE LET ilpReject == lpi1RejectionToIlpReject(ev.reason) IN
       IF ilpReject.threw
       THEN [st EXCEPT !.promises = settle(@, adapters[a].transfers[ev.id], "rejected",
                                           ErrorValue(ilpReject.error))]
       ELSE [st EXCEPT !.promises = settle(@, adapters[a].transfers[ev.id], "rejected",
                                           PacketValue(ilpReject.value))]

\* A variant of _handleOutgoingReject that converts outside the try block.
_handleOutgoingRejectUncaught(a, ev, st) ==
  IF ~Tracked(a, ev.id)
  THEN st
  ELSE LET ilpReject == lpi1RejectionToIlpReject(ev.reason) IN
       IF ilpReject.threw
       THEN [st EXCEPT !.threw = TRUE, !.error = ilpReject.error]
       ELSE [st EXCEPT !.promises = settle(@, adapters[a].transfers[ev.id], "fulfilled",
                                           PacketValue(ilpReject.value))]

_handleOutgoingReject(a, ev, st) ==
  IF ~Tracked(a, ev.id)
  THEN st
  ELSE LET ilpReject == lpi1RejectionToIlpReject(ev.reason) IN
       IF ilpReject.threw
       THEN [st EXCEPT !.promises = settle(@, adapters[a].transfers[ev.id], "rejected",
                                           ErrorValue(ilpReject.error))]
       ELSE [st EXCEPT !.promises = settle(@, adapters[a].transfers[ev.id], "fulfilled",
                                           PacketValue(ilpReject.value))]

\* An incoming_prepare event: it carries the transfer.
IncomingPrepare(transfer) ==
  [type |-> "incoming_prepare", id |-> transfer.id, transfer |-> transfer]

\* err.message of an error a library call or the engine threw: the model knows
\* such an error by its name, and this text stands for the message it carries.
messageOf(error) == "message of " \o error

\* Lines 326 to 333: the reason of the catch callback.
badRequest(message) == Rejection("F00", "Bad Request", message, "", NoInfo)

rejectIncomingTransfer(id, reason) ==
  [fn |-> "rejectIncomingTransfer", id |-> id, reason |-> reason]

fulfillCondition(id, fulfillment, ilp) ==
  [fn |-> "fulfillCondition", id |-> id, fulfillment |-> fulfillment, ilp |-> ilp]

\* A variant of _handleIncomingPrepare that answers a missing handler with F00.
_handleIncomingPrepareBadRequest(a, ev, st) ==
  LET lpi1Transfer == ev.transfer
      ilpPrepare == lpi1TransferToIlpPrepare(lpi1Transfer)
  IN IF ilpPrepare.threw
     THEN [st EXCEPT !.threw = TRUE, !.error = ilpPrepare.error]
     ELSE IF adapters[a]._dataHandler = None
     THEN [st EXCEPT !.calls = @ \o
             <<Call("getAccount"),
               rejectIncomingTransfer(lpi1Transfer.id,
                 Rejection("F00", "Bad Request", "No data handler registered",
                           v1Info.account, NoInfo))>>]
     ELSE [st EXCEPT
             !.calls = Append(@, [fn |-> "dataHandler",
                                  handler |-> adapters[a]._dataHandler,
                                  data |-> ilpPrepare.value]),
             !.promises = Append(@, [kind |-> "handler", adapter |-> a,
                                     id |-> lpi1Transfer.id,
                                     state |-> "pending", value |-> NoValue])]

\* Lines 289 to 309, up to the await: the conversion runs before the async function
\* is entered, so its exception is thrown to the emitter.  The V1 plugin's getAccount
\* and rejectIncomingTransfer return.  The promise of the handler is kept in promises
\* until the handler answers (a handler that throws is one whose promise rejects:
\* both reach the catch callback after the event was handled).
_handleIncomingPrepare(a, ev, st) ==
  LET lpi1Transfer == ev.transfer
      ilpPrepare == lpi1TransferToIlpPrepare(lpi1Transfer)
  IN IF ilpPrepare.threw
     THEN [st EXCEPT !.threw = TRUE, !.error = ilpPrepare.error]
     ELSE IF adapters[a]._dataHandler = None
     THEN [st EXCEPT !.calls = @ \o
             <<Call("getAccount"),
               rejectIncomingTransfer(lpi1Transfer.id,
                 Rejection("T01", "Ledger Unreachable", "No data handler registered",
                           v1Info.account, NoInfo))>>]
     ELSE [st EXCEPT
             !.calls = Append(@, [fn |-> "dataHandler",
                                  handler |-> adapters[a]._dataHandler,
                                  data |-> ilpPrepare.value]),
             !.promises = Append(@, [kind |-> "handler", adapter |-> a,
                                     id |-> lpi1Transfer.id,
                                     state |-> "pending", value |-> NoValue])]

\* An incoming_transfer event: it carries the transfer; moneyHandler is what the
\* registered money handler does when it is called with this transfer's amount: it
\* throws, or it returns a promise that is settled later.
IncomingTransferEvent(transfer, moneyHandler) ==
  [type |-> "incoming_transfer", id |-> transfer.id, transfer |-> transfer,
   moneyHandler |-> moneyHandler]

\* Lines 274 to 287: the handler is called before Promise.resolve wraps its result,
\* so what it throws is thrown to the emitter; only the promise it returns has the
\* catch callback, which logs.
_handleIncomingTransfer(a, ev, st) ==
  IF adapters[a]._moneyHandler = None
  THEN st
  ELSE LET called == [st EXCEPT !.calls = Append(@, [fn |-> "moneyHandler",
                                                    handler |-> adapters[a]._moneyHandler,
                                                    amount |-> ev.transfer.amount])]
       IN IF ev.moneyHandler = "throws"
          THEN [called EXCEPT !.threw = TRUE, !.error = "MoneyHandlerError"]
          ELSE [called EXCEPT
                  !.promises = Append(@, [kind |-> "money", adapter |-> a,
                                          id |-> ev.transfer.id,
                                          state |-> "pending", value |-> NoValue])]

\* The listener the constructor subscribed for the event's type.
Listener(a, ev, st) ==
  IF ev.type = "outgoing_fulfill" THEN _handleOutgoingFulfill(a, ev, st)
  ELSE IF ev.type \in {"outgoing_reject", "outgoing_cancel"} THEN _handleOutgoingReject(a, ev, st)
  ELSE IF ev.type = "incoming_prepare" THEN _handleIncomingPrepare(a, ev, st)
  ELSE IF ev.type = "incoming_transfer" THEN _handleIncomingTransfer(a, ev, st)
  ELSE st

\* EventEmitter.emit: the listeners of the event's type run in subscription order,
\* until one throws.
RECURSIVE RunListeners(_, _, _)
RunListeners(listeners, ev, st) ==
  IF listeners = <<>> \/ st.threw
  THEN st
  ELSE RunListeners(Tail(listeners), ev,
                    IF Head(listeners).event = ev.type
                    THEN Listener(Head(listeners).adapter, ev, st)
                    ELSE st)

Range(f) == {f[x] : x \in DOMAIN f}

\* The promises a step settled.
Settled(before, after) ==
  {i \in 1..Len(before) : before[i].state = "pending" /\ after[i].state # "pending"}

\* The event types the wrapper of emit hands on to the Plugin instance.
PASSTHROUGH_EVENTS == <<"connect", "disconnect", "error", "info_change">>

\* An event of a type the adapter has no listener for: its type and its arguments.
PlainEvent(type, args) == [type |-> type, id |-> "", args |-> args]

\* this.emit(eventType, ...args) on Plugin instance a.
emitOnAdapter(a, ev) == [fn |-> "emit", adapter |-> a, type |-> ev.type, args |-> ev.args]

\* A variant of the wrapper that hands every event on, without its arguments.
reemitUnfiltered(p, ev, st) ==
  IF st.threw
  THEN st
  ELSE [st EXCEPT !.calls = @ \o [k \in 1..Len(plugins[p].emitWrappers) |->
                                    [fn |-> "emit", adapter |-> plugins[p].emitWrappers[k],
                                     type |-> ev.type, args |-> <<>>]]]

\* The host's listener on Plugin instance a is called with the event's arguments.
heard(a, ev) == [fn |-> "listener", adapter |-> a, type |-> ev.type, args |-> ev.args]

\* EventEmitter.emit of Plugin instance a, called at line 105: the listener attached
\* for the type is called; with none attached the event is gone, and an event of
\* type 'error' makes emit throw (events: an unhandled 'error' event is thrown).
emitOnPlugin(a, ev, st) ==
  LET called == [st EXCEPT !.calls = Append(@, emitOnAdapter(a, ev))] IN
  IF ev.type \in adapters[a].listeners
  THEN [called EXCEPT !.calls = Append(@, heard(a, ev))]
  ELSE IF ev.type = "error"
  THEN [called EXCEPT !.threw = TRUE, !.error = "UnhandledError"]
  ELSE called

\* The wrappers run from the innermost on; what one throws ends the emit call.
RECURSIVE reemitFrom(_, _, _)
reemitFrom(wrappers, ev, st) ==
  IF wrappers = <<>> \/ st.threw
  THEN st
  ELSE reemitFrom(Tail(wrappers), ev, emitOnPlugin(Head(wrappers), ev, st))

\* Lines 99 to 107, after originalEmit has returned: each wrapper installed on the
\* V1 plugin emits an event of a passthrough type on its Plugin instance, the
\* innermost wrapper first.
reemit(p, ev, st) ==
  IF st.threw \/ ev.type \notin Range(PASSTHROUGH_EVENTS)
  THEN st
  ELSE reemitFrom(plugins[p].emitWrappers, ev, st)

\* The V1 plugin p emits ev.
emit(p, ev) ==
  /\ plugins[p].emitWrappers # <<>>
  /\ LET st == reemit(p, ev, RunListeners(plugins[p].listeners, ev, Running(promises))) IN
       /\ promises' = st.promises
       /\ lastOp' = [name |-> "emit", plugin |-> p, type |-> ev.type,
                     tracked |-> \E l \in Range(plugins[p].listeners) : Tracked(l.adapter, ev.id),
                     threw |-> st.threw, error |-> st.error,
                     settled |-> Settled(promises, st.promises)]
       /\ calls' = st.calls
  /\ UNCHANGED <<plugins, adapters, nextId, v1Info>>

\* The terminal event a V1 plugin emits for transfer id while sendTransfer runs.
Answer(type, id) ==
  IF type = "outgoing_fulfill"
  THEN Event(type, id, base64url(<<1, 2>>), "", NoReason)
  ELSE Event(type, id, "", "", Reason("T01", "no", "g.a.bob", NoInfo))

\* A variant of sendDataAnswered that calls sendTransfer before it stores the entry:
\* the listeners run on a transfers table without it.
sendDataAnsweredUnstored(a, data, type) ==
  LET ilpPrepare == deserializeIlpPrepare(data.bytes).value
      id == TransferId(nextId)
      to == _getTo(ilpPrepare.destination)
      lpi1Transfer == [ilpPrepareToLpi1Transfer(ilpPrepare, id) EXCEPT
                         !.to = to.value, !.from = v1Info.account, !.ledger = v1Info.prefix]
      promise == Len(promises) + 1
      p == adapters[a].oldPlugin
  IN /\ ~to.threw
     /\ nextId <= MaxSends
     /\ Len(promises) < MaxSends
     /\ nextId' = nextId + 1
     /\ UNCHANGED <<plugins, v1Info>>
     /\ adapters' = [adapters EXCEPT
          ![a].transfers = [k \in DOMAIN @ \cup {id} |-> IF k = id THEN promise ELSE @[k]]]
     /\ \E before \in {Running(Append(promises,
                         [kind |-> "prepare", adapter |-> a, id |-> id,
                          state |-> "pending", value |-> NoValue]))} :
          LET st == RunListeners(plugins[p].listeners, Answer(type, id), before) IN
          /\ promises' = st.promises
          /\ lastOp' = [name |-> "sendDataAnswered", adapter |-> a, data |-> data,
                        answer |-> type, state |-> st.promises[promise].state,
                        value |-> st.promises[promise].value, promise |-> promise]
     /\ calls' = to.calls \o <<Call("getAccount"), Call("getInfo"),
                               [fn |-> "sendTransfer", transfer |-> lpi1Transfer]>>

\* sendData with a prepare packet (lines 145 to 156) on a V1 plugin that emits the
\* terminal event of the transfer from inside sendTransfer, before sendTransfer
\* returns its promise: the entry is stored at line 152, then sendTransfer is called
\* at line 154 and the listeners of the event run on the transfers table as it is by
\* then.
sendDataAnswered(a, data, type) ==
  LET ilpPrepare == deserializeIlpPrepare(data.bytes).value
      id == TransferId(nextId)
      to == _getTo(ilpPrepare.destination)
      lpi1Transfer == [ilpPrepareToLpi1Transfer(ilpPrepare, id) EXCEPT
                         !.to = to.value, !.from = v1Info.account, !.ledger = v1Info.prefix]
      promise == Len(promises) + 1
      p == adapters[a].oldPlugin
  IN /\ ~to.threw
     /\ nextId <= MaxSends
     /\ Len(promises) < MaxSends
     /\ nextId' = nextId + 1
     /\ UNCHANGED <<plugins, v1Info>>
     /\ adapters' = [adapters EXCEPT
          ![a].transfers = [k \in DOMAIN @ \cup {id} |-> IF k = id THEN promise ELSE @[k]]]
     /\ \E before \in {Running(Append(promises,
                         [kind |-> "prepare", adapter |-> a, id |-> id,
                          state |-> "pending", value |-> NoValue]))},
           listeners \in {plugins[p].listeners}, ev \in {Answer(type, id)} :
          LET st == RunListeners(listeners, ev, before)' IN
          /\ promises' = st.promises
          /\ lastOp' = [name |-> "sendDataAnswered", adapter |-> a, data |-> data,
                        answer |-> type, state |-> st.promises[promise].state,
                        value |-> st.promises[promise].value, promise |-> promise]
     /\ calls' = to.calls \o <<Call("getAccount"), Call("getInfo"),
                               [fn |-> "sendTransfer", transfer |-> lpi1Transfer]>>

\* on(type, listener) of Plugin instance a, inherited from EventEmitter: the listener
\* is attached; nothing is emitted and nothing is delivered.
on(a, type) ==
  /\ adapters' = [adapters EXCEPT ![a].listeners = @ \cup {type}]
  /\ lastOp' = Returned("on", a, type, "undefined")
  /\ calls' = <<>>
  /\ UNCHANGED <<plugins, promises, nextId, v1Info>>

\* What the data handler answers: it throws or rejects with an error of the given
\* message, or it resolves with undefined or with a Buffer.
HandlerOutcome(threw, message, defined, bytes) ==
  [threw |-> threw, message |-> message, defined |-> defined, bytes |-> bytes]

\* A variant of acknowledge that tells the packets apart by the wrong type bytes.
acknowledgeSwapped(id, outcome) ==
  IF outcome.threw
  THEN <<rejectIncomingTransfer(id, badRequest(outcome.message))>>
  ELSE IF ~outcome.defined
  THEN <<rejectIncomingTransfer(id, badRequest(messageOf("TypeError")))>>
  ELSE IF outcome.bytes # <<>> /\ outcome.bytes[1] = TYPE_ILP_REJECT
  THEN LET converted == ilpFulfillToLpi1Fulfillment(outcome.bytes) IN
       IF converted.threw
       THEN <<rejectIncomingTransfer(id, badRequest(messageOf(converted.error)))>>
       ELSE <<fulfillCondition(id, converted.value.fulfillment, converted.value.ilp)>>
  ELSE IF outcome.bytes # <<>> /\ outcome.bytes[1] = TYPE_ILP_FULFILL
  THEN LET reason == ilpRejectToLpi1Rejection(outcome.bytes) IN
       IF reason.threw
       THEN <<rejectIncomingTransfer(id, badRequest(messageOf(reason.error)))>>
       ELSE <<rejectIncomingTransfer(id, reason.value)>>
  ELSE <<rejectIncomingTransfer(id, badRequest("unknown ilp response packet."))>>

\* A variant of acknowledge without the catch callback.
acknowledgeUncaught(id, outcome) ==
  IF outcome.threw \/ ~outcome.defined
  THEN <<>>
  ELSE IF outcome.bytes # <<>> /\ outcome.bytes[1] = TYPE_ILP_FULFILL
  THEN LET converted == ilpFulfillToLpi1Fulfillment(outcome.bytes) IN
       IF converted.threw
       THEN <<>>
       ELSE <<fulfillCondition(id, converted.value.fulfillment, converted.value.ilp)>>
  ELSE IF outcome.bytes # <<>> /\ outcome.bytes[1] = TYPE_ILP_REJECT
  THEN LET reason == ilpRejectToLpi1Rejection(outcome.bytes) IN
       IF reason.threw
       THEN <<>>
       ELSE <<rejectIncomingTransfer(id, reason.value)>>
  ELSE <<>>

\* Lines 309 to 335, after the await: the calls on the V1 plugin that acknowledge
\* transfer id once the handler has answered.  Reading responsePacket[0] of
\* undefined is a TypeError; fulfillCondition and rejectIncomingTransfer return.
acknowledge(id, outcome) ==
  IF outcome.threw
  THEN <<rejectIncomingTransfer(id, badRequest(outcome.message))>>
  ELSE IF ~outcome.defined
  THEN <<rejectIncomingTransfer(id, badRequest(messageOf("TypeError")))>>
  ELSE IF outcome.bytes # <<>> /\ outcome.bytes[1] = TYPE_ILP_FULFILL
  THEN LET converted == ilpFulfillToLpi1Fulfillment(outcome.bytes) IN
       IF converted.threw
       THEN <<rejectIncomingTransfer(id, badRequest(messageOf(converted.error)))>>
       ELSE <<fulfillCondition(id, converted.value.fulfillment, converted.value.ilp)>>
  ELSE IF outcome.bytes # <<>> /\ outcome.bytes[1] = TYPE_ILP_REJECT
  THEN LET reason == ilpRejectToLpi1Rejection(outcome.bytes) IN
       IF reason.threw
       THEN <<rejectIncomingTransfer(id, badRequest(messageOf(reason.error)))>>
       ELSE <<rejectIncomingTransfer(id, reason.value)>>
  ELSE <<rejectIncomingTransfer(id, badRequest("unknown ilp response packet."))>>

\* A variant of dataHandlerSettles that acknowledges the transfer of the oldest
\* invocation.
dataHandlerSettlesOldest(i, outcome) ==
  /\ promises[i].kind = "handler"
  /\ promises[i].state = "pending"
  /\ promises' = IF outcome.threw
                 THEN settle(promises, i, "rejected", ErrorValue(outcome.message))
                 ELSE settle(promises, i, "fulfilled", PacketValue(outcome.bytes))
  /\ calls' = acknowledge(promises[1].id, outcome)
  /\ lastOp' = [name |-> "dataHandlerSettles", promise |-> i, id |-> promises[i].id,
                outcome |-> outcome]
  /\ UNCHANGED <<plugins, adapters, nextId, v1Info>>

\* The data handler answers the invocation that promise i stands for.
dataHandlerSettles(i, outcome) ==
  /\ promises[i].kind = "handler"
  /\ promises[i].state = "pending"
  /\ promises' = IF outcome.threw
                 THEN settle(promises, i, "rejected", ErrorValue(outcome.message))
                 ELSE settle(promises, i, "fulfilled", PacketValue(outcome.bytes))
  /\ calls' = acknowledge(promises[i].id, outcome)
  /\ lastOp' = [name |-> "dataHandlerSettles", promise |-> i, id |-> promises[i].id,
                outcome |-> outcome]
  /\ UNCHANGED <<plugins, adapters, nextId, v1Info>>

\* Lines 309 to 335 with a V1 plugin whose fulfillCondition and
\* rejectIncomingTransfer throw when they are called: what a call made in the async
\* function (lines 314, 318) throws rejects that function's promise, so the catch
\* callback runs and calls rejectIncomingTransfer with F00 and the error's message;
\* what the call of the catch callback throws reaches nobody.
acknowledgeThrowing(id, outcome) ==
  LET caught == rejectIncomingTransfer(id, badRequest(messageOf("AckError"))) IN
  IF outcome.threw
  THEN <<rejectIncomingTransfer(id, badRequest(outcome.message))>>
  ELSE IF ~outcome.defined
  THEN <<rejectIncomingTransfer(id, badRequest(messageOf("TypeError")))>>
  ELSE IF outcome.bytes # <<>> /\ outcome.bytes[1] = TYPE_ILP_FULFILL
  THEN LET converted == ilpFulfillToLpi1Fulfillment(outcome.bytes) IN
       IF converted.threw
       THEN <<rejectIncomingTransfer(id, badRequest(messageOf(converted.error)))>>
       ELSE <<fulfillCondition(id, converted.value.fulfillment, converted.value.ilp), caught>>
  ELSE IF outcome.bytes # <<>> /\ outcome.bytes[1] = TYPE_ILP_REJECT
  THEN LET reason == ilpRejectToLpi1Rejection(outcome.bytes) IN
       IF reason.threw
       THEN <<rejectIncomingTransfer(id, badRequest(messageOf(reason.error)))>>
       ELSE <<rejectIncomingTransfer(id, reason.value), caught>>
  ELSE <<rejectIncomingTransfer(id, badRequest("unknown ilp response packet."))>>

\* The data handler answers the invocation that promise i stands for, and the
\* acknowledgment calls of the V1 plugin throw.
dataHandlerSettlesAckThrows(i, outcome) ==
  /\ promises[i].kind = "handler"
  /\ promises[i].state = "pending"
  /\ promises' = IF outcome.threw
                 THEN settle(promises, i, "rejected", ErrorValue(outcome.message))
                 ELSE settle(promises, i, "fulfilled", PacketValue(outcome.bytes))
  /\ calls' = acknowledgeThrowing(promises[i].id, outcome)
  /\ lastOp' = [name |-> "dataHandlerSettles", promise |-> i, id |-> promises[i].id,
                outcome |-> outcome, ack |-> "throws"]
  /\ UNCHANGED <<plugins, adapters, nextId, v1Info>>

\* The V1 plugin p emits incoming_prepare, and its rejectIncomingTransfer throws when
\* it is called: the call of line 298 is made in the async function, so the catch
\* callback runs and calls rejectIncomingTransfer once more, with F00.
emitAckThrows(p, ev) ==
  /\ ev.type = "incoming_prepare"
  /\ plugins[p].emitWrappers # <<>>
  /\ LET st == RunListeners(plugins[p].listeners, ev, Running(promises))
         rejected == \E k \in 1..Len(st.calls) : st.calls[k].fn = "rejectIncomingTransfer"
     IN /\ promises' = st.promises
        /\ lastOp' = [name |-> "emit", plugin |-> p, type |-> ev.type,
                      tracked |-> FALSE, threw |-> st.threw, error |-> st.error,
                      settled |-> {}, ack |-> "throws"]
        /\ calls' = IF rejected
                    THEN Append(st.calls,
                                rejectIncomingTransfer(ev.id, badRequest(messageOf("AckError"))))
                    ELSE st.calls
  /\ UNCHANGED <<plugins, adapters, nextId, v1Info>>

\* A V1 request message: {id, from, to, ledger, ilp}; ilp is '' when it is absent.
Request(from, to, ledger, ilp) ==
  [id |-> "req", from |-> from, to |-> to, ledger |-> ledger, ilp |-> ilp]

\* What a promise of _handleRequest is fulfilled with: a response message.
MessageValue(message) == [type |-> "message", bytes |-> <<>>, error |-> "", message |-> message]

\* Lines 338 to 349, up to the await: the V1 plugin calls the request handler that
\* Plugin instance a registered at construction.
_handleRequest(a, request) ==
  /\ a \in Range(plugins[adapters[a].oldPlugin].requestHandlers)
  /\ UNCHANGED <<plugins, adapters, nextId, v1Info>>
  /\ IF adapters[a]._dataHandler = None
     THEN /\ lastOp' = [name |-> "request", adapter |-> a, request |-> request,
                        state |-> "rejected", value |-> ErrorValue("no handler."),
                        promise |-> 0]
          /\ calls' = <<>>
          /\ UNCHANGED promises
     ELSE IF request.ilp = ""
     THEN /\ lastOp' = [name |-> "request", adapter |-> a, request |-> request,
                        state |-> "rejected",
                        value |-> ErrorValue("cannot handle requests without ilp packet"),
                        promise |-> 0]
          /\ calls' = <<>>
          /\ UNCHANGED promises
     ELSE /\ calls' = <<[fn |-> "dataHandler", handler |-> adapters[a]._dataHandler,
                         data |-> fromBase64(request.ilp)]>>
          /\ promises' = Append(promises,
                                [kind |-> "requestHandler", adapter |-> a, id |-> request.id,
                                 state |-> "pending", value |-> NoValue,
                                 request |-> request])
          /\ lastOp' = [name |-> "request", adapter |-> a, request |-> request,
                        state |-> "pending", value |-> NoValue,
                        promise |-> Len(promises) + 1]

\* A variant of requestResponse that copies from and to as they are.
requestResponseUnswapped(request, outcome) ==
  IF outcome.threw
  THEN Failure(outcome.message)
  ELSE IF ~outcome.defined
  THEN Failure("TypeError")
  ELSE Value([to |-> request.to, from |-> request.from, ledger |-> request.ledger,
              ilp |-> base64url(outcome.bytes)])

\* Lines 345 to 350, after the await: the response for the handler's answer.  What
\* the handler throws, and base64url of undefined, reject the promise.
requestResponse(request, outcome) ==
  IF outcome.threw
  THEN Failure(outcome.message)
  ELSE IF ~outcome.defined
  THEN Failure("TypeError")
  ELSE Value([to |-> request.from, from |-> request.to, ledger |-> request.ledger,
              ilp |-> base64url(outcome.bytes)])

\* The data handler answers the invocation that _handleRequest made for promise i.
requestHandlerSettles(i, outcome) ==
  /\ promises[i].kind = "requestHandler"
  /\ promises[i].state = "pending"
  /\ LET r == requestResponse(promises[i].request, outcome) IN
       /\ promises' = IF r.threw
                      THEN settle(promises, i, "rejected", ErrorValue(r.error))
                      ELSE settle(promises, i, "fulfilled", MessageValue(r.value))
       /\ lastOp' = [name |-> "requestHandlerSettles", promise |-> i,
                     request |-> promises[i].request, outcome |-> outcome]
  /\ calls' = <<>>
  /\ UNCHANGED <<plugins, adapters, nextId, v1Info>>

\* The promise the money handler returned is settled: a rejection reaches the catch
\* callback of line 282, which writes a debug line and calls nothing.
moneyHandlerSettles(i, ok) ==
  /\ promises[i].kind = "money"
  /\ promises[i].state = "pending"
  /\ promises' = IF ok
                 THEN settle(promises, i, "fulfilled", NoValue)
                 ELSE settle(promises, i, "rejected", ErrorValue("MoneyHandlerError"))
  /\ calls' = <<>>
  /\ lastOp' = [name |-> "moneyHandlerSettles", promise |-> i, ok |-> ok]
  /\ UNCHANGED <<plugins, adapters, nextId, v1Info>>

\* ---------------------------------------------------------------- a V1 link

\* Two V1 plugins that are the two ends of one ledger link, as LPI1 has them: a
\* transfer one end is asked to send arrives at the other end as incoming_prepare,
\* and a rejection one end is handed arrives at the other end as outgoing_reject.
\* The link carries the calls of the last operation.
Peer(p) == IF p = "v1" THEN "v1b" ELSE "v1"

PrepareInFlight ==
  /\ lastOp.name = "sendData"
  /\ \E k \in 1..Len(calls) : calls[k].fn = "sendTransfer"
  /\ plugins[Peer(adapters[lastOp.adapter].oldPlugin)].emitWrappers # <<>>

RejectInFlight ==
  /\ lastOp.name = "emit"
  /\ lastOp.type = "incoming_prepare"
  /\ \E k \in 1..Len(calls) : calls[k].fn = "rejectIncomingTransfer"

\* The receiving end emits incoming_prepare with the transfer sendTransfer was given.
deliverPrepare ==
  /\ PrepareInFlight
  /\ \E k \in 1..Len(calls) :
       /\ calls[k].fn = "sendTransfer"
       /\ emit(Peer(adapters[lastOp.adapter].oldPlugin), IncomingPrepare(calls[k].transfer))

\* The sending end emits outgoing_reject with the reason rejectIncomingTransfer was
\* given.
deliverReject ==
  /\ RejectInFlight
  /\ \E k \in 1..Len(calls) :
       /\ calls[k].fn = "rejectIncomingTransfer"
       /\ emit(Peer(lastOp.plugin),
               Event("outgoing_reject", calls[k].id, "", "", calls[k].reason))

\* ---------------------------------------------------------------- conversions

\* The converters applied to a prepare packet: the packet is decoded as sendData
\* decodes it, turned into a V1 transfer and that transfer is turned back into a
\* prepare packet, as _handleIncomingPrepare does on the receiving side.
prepareRoundTrip(packet) ==
  LET ilpPrepare == deserializeIlpPrepare(packet).value
      lpi1Transfer == ilpPrepareToLpi1Transfer(ilpPrepare, TransferId(nextId))
  IN /\ lastOp' = [name |-> "prepareRoundTrip", arg |-> packet,
                   transfer |-> lpi1Transfer,
                   result |-> lpi1TransferToIlpPrepare(lpi1Transfer)]
     /\ calls' = <<>>
     /\ UNCHANGED <<plugins, adapters, promises, nextId, v1Info>>

\* ilpRejectToLpi1Rejection applied to a reject packet.
rejectionOf(packet) ==
  /\ lastOp' = [name |-> "ilpRejectToLpi1Rejection", arg |-> packet,
                result |-> ilpRejectToLpi1Rejection(packet)]
  /\ calls' = <<>>
  /\ UNCHANGED <<plugins, adapters, promises, nextId, v1Info>>

\* base64url applied to a Buffer.
encode(buffer) ==
  /\ lastOp' = [name |-> "base64url", arg |-> buffer, result |-> base64url(buffer)]
  /\ calls' = <<>>
  /\ UNCHANGED <<plugins, adapters, promises, nextId, v1Info>>

\* ---------------------------------------------------------------- inputs

\* Arguments of convert: values that are no objects, null, the heap objects and the
\* Plugin instances constructed so far.
ConvertArgs == NonObjects \cup {Null} \cup HeapObjects \cup AdapterRefs

\* Arguments of sendData: something that is not a Buffer, or a Buffer.
NotABuffer == [isBuffer |-> FALSE, bytes |-> <<>>]

Buf(bytes) == [isBuffer |-> TRUE, bytes |-> bytes]

PreparePacket(destination) ==
  serializeIlpPrepare([amount |-> "10", executionCondition |-> <<1, 2>>, expiresAt |-> 5,
                       destination |-> destination, data |-> <<7>>]).value

\* A prepare for an account on the local ledger, and one for another ledger.
LocalPrepare == Buf(PreparePacket("g.a.bob.x"))

RemotePrepare == Buf(PreparePacket("g.b.carol"))

\* A prepare for the reserved peer configuration address.
PeerConfigPrepare == Buf(PreparePacket("peer.config"))

\* Prepares whose destination is the ledger prefix itself, has an empty segment
\* after the prefix, is empty, or is an account directly under the prefix.
PrefixPrepare == Buf(PreparePacket("g.a."))

EmptySegmentPrepare == Buf(PreparePacket("g.a..x"))

NoDestinationPrepare == Buf(PreparePacket(""))

AccountPrepare == Buf(PreparePacket("g.a.bob"))

\* A buffer that starts with the prepare type byte and is no prepare packet.
MalformedPrepare == Buf(<<TYPE_ILP_PREPARE, 9>>)

\* A buffer that does not start with the prepare type byte.
LegacyData == Buf(<<4, 1>>)

\* The prepares sendData hands to sendTransfer, by destination.
RoutedPrepares ==
  {LocalPrepare, AccountPrepare, RemotePrepare, PrefixPrepare, EmptySegmentPrepare,
   NoDestinationPrepare}

SendArgs == RoutedPrepares \cup {NotABuffer, PeerConfigPrepare, MalformedPrepare, LegacyData}

\* Response messages of sendRequest: none, one with a packet, one with a custom
\* object, one with both, one with an empty custom object, one with a custom string.
ResponseMessages ==
  { ResponseMessage(FALSE, "", "undefined", ""),
    ResponseMessage(TRUE, "DQA", "undefined", ""),
    ResponseMessage(TRUE, "", "object", "{\"a\":1}"),
    ResponseMessage(TRUE, "DQA", "object", "{\"a\":1}"),
    ResponseMessage(TRUE, "", "object", "{}"),
    ResponseMessage(TRUE, "", "string", "") }

\* Incoming transfers: with a forwarded payment, with a delivered payment, with no
\* packet, with text that is no packet, with a packet of another type, with an
\* amount that is no number, and with an expiry that is no date.
ForwardedPayment ==
  base64url(serializeIlpForwardedPayment([account |-> "g.a.me.x", data |-> <<5>>]))

IncomingTransfer(id, amount, ilp, expiresAt) ==
  Transfer(id, amount, ilp, base64url(<<1, 2>>), expiresAt)

IncomingTransfers ==
  { IncomingTransfer("in1", "10", ForwardedPayment, toISOString(5)),
    IncomingTransfer("in2", "10",
      base64url(<<TYPE_ILP_PAYMENT>> \o VarOctets(AsciiBytes("g.a.me")) \o VarOctets(<<>>)),
      toISOString(5)),
    IncomingTransfer("in1", "10", "", toISOString(5)),
    IncomingTransfer("in1", "10", "AA", toISOString(5)),
    IncomingTransfer("in1", "10", base64url(serializeIlpFulfillment([data |-> <<8>>])),
                     toISOString(5)),
    IncomingTransfer("in1", "ten", ForwardedPayment, toISOString(5)),
    IncomingTransfer("in1", "10", ForwardedPayment, "soon") }

\* Incoming optimistic transfers (they carry no packet), with either behaviour of
\* the money handler.
IncomingTransferEvents ==
  { IncomingTransferEvent(IncomingTransfer(id, amount, "", toISOString(5)), moneyHandler) :
      id \in {"in1", "in2"}, amount \in {"10", "0"}, moneyHandler \in V1Behaviours }

\* Valid prepare packets: amounts, conditions of every length modulo 3 (with bytes
\* whose base64 text has '+' and '/'), expiries, destinations and data.
ValidPrepares ==
  { serializeIlpPrepare([amount |-> amount, executionCondition |-> executionCondition,
                         expiresAt |-> expiresAt, destination |-> destination,
                         data |-> data]).value :
      amount \in {"0", "10", "999"},
      executionCondition \in {<<>>, <<1>>, <<251, 255>>, <<1, 2, 3>>, <<0, 0, 0, 62>>},
      expiresAt \in {0, 5, 99, 255},
      destination \in {"g.a.bob", "g.b.c.d", "x"},
      data \in {<<>>, <<7>>} }

\* Reject packets: one for each code of the table and for three codes outside it.
RejectCodes == DOMAIN ERROR_NAMES \cup {"F08", "X12", "T98"}

RejectPackets ==
  { serializeIlpReject([code |-> code, triggeredBy |-> "g.a.bob", message |-> "no",
                        data |-> <<>>]).value : code \in RejectCodes }

\* Buffers of up to MaxLen bytes, of bytes whose base64 text has 'A', '+', '/' in it.
MaxLen == 4

RECURSIVE BuffersOf(_)
BuffersOf(n) ==
  IF n = 0 THEN {<<>>}
  ELSE {Append(b, x) : b \in BuffersOf(n - 1), x \in {0, 251, 255}}

Buffers == UNION {BuffersOf(n) : n \in 0..MaxLen}

\* Inbound requests: with a prepare packet, with a packet of two bytes, and with no
\* packet.
Requests ==
  { Request("g.a.bob", "g.a.me", "g.a.", ilp) :
      ilp \in {base64url(PreparePacket("g.a.me.x")), "DQA", ""} }

\* Events of the passthrough types and of two types nobody subscribed to, with no
\* argument and with one.
PlainEvents ==
  { PlainEvent(type, args) :
      type \in Range(PASSTHROUGH_EVENTS) \cup {"money", "outgoing_prepare"},
      args \in {<<>>, <<"arg">>} }

IncomingPrepares == {IncomingPrepare(transfer) : transfer \in IncomingTransfers}

\* What the data handler answers: a fulfill packet, a reject packet with a code of
\* the table and one with another code, a prepare packet, an empty Buffer, a fulfill
\* and a reject packet cut short, undefined, and an error.
HandlerOutcomes ==
  { HandlerOutcome(FALSE, "", TRUE,
                   serializeIlpFulfill([fulfillment |-> <<1, 2>>, data |-> <<5>>])),
    HandlerOutcome(FALSE, "", TRUE,
                   serializeIlpReject([code |-> "F99", triggeredBy |-> "g.a.me.x",
                                       message |-> "no", data |-> <<5>>]).value),
    HandlerOutcome(FALSE, "", TRUE,
                   serializeIlpReject([code |-> "X12", triggeredBy |-> "",
                                       message |-> "", data |-> <<>>]).value),
    HandlerOutcome(FALSE, "", TRUE, PreparePacket("g.a.bob")),
    HandlerOutcome(FALSE, "", TRUE, <<>>),
    HandlerOutcome(FALSE, "", TRUE, <<TYPE_ILP_FULFILL, 4>>),
    HandlerOutcome(FALSE, "", TRUE, <<TYPE_ILP_REJECT, 70>>),
    HandlerOutcome(FALSE, "", FALSE, <<>>),
    HandlerOutcome(TRUE, "boom", FALSE, <<>>) }

\* The ids events carry: the ids drawn so far and an id no adapter drew.
EventIds == {TransferId(n) : n \in 1..(nextId - 1)} \cup {"foreign"}

\* The fulfillment and the ilp values outgoing_fulfill events carry: no ilp, the
\* legacy fulfillment data packet, and text that is no such packet.
EventFulfillment == base64url(<<1, 2>>)

EventIlps == {"", base64url(serializeIlpFulfillment([data |-> <<8>>])), "AA"}

\* The reasons outgoing_reject events carry: two reasons that convert, a code of
\* two characters, and an additional_info of null.
Reasons ==
  { Reason("T01", "no", "g.a.bob", NoInfo),
    Reason("F99", "", "g.a.bob", AdditionalInfo("object", FALSE, "CQ", "app")),
    Reason("F0", "no", "g.a.bob", NoInfo),
    Reason("F00", "", "", AdditionalInfo("null", FALSE, "", "")) }

\* One terminal event of each kind for every id: a fulfillment with no ilp, a
\* rejection and a cancellation whose reasons convert.
AnswerEvents ==
  {Event("outgoing_fulfill", id, EventFulfillment, "", NoReason) : id \in EventIds}
  \cup {Event("outgoing_reject", id, "", "", Reason("T01", "no", "g.a.bob", NoInfo)) :
          id \in EventIds}
  \cup {Event("outgoing_cancel", id, "", "", Reason("R00", "late", "g.a.bob", NoInfo)) :
          id \in EventIds}

FulfillEvents ==
  {Event("outgoing_fulfill", id, EventFulfillment, ilp, NoReason) :
     id \in EventIds, ilp \in EventIlps}

\* A reason that converts and one that does not, for outgoing_cancel.
CancelReasons ==
  { Reason("R00", "late", "g.a.bob", NoInfo),
    Reason("F00", "", Undefined, NoInfo) }

RejectEvents ==
  {Event("outgoing_reject", id, "", "", reason) : id \in EventIds, reason \in Reasons}
  \cup
  {Event("outgoing_cancel", id, "", "", reason) : id \in EventIds, reason \in CancelReasons}

\* ---------------------------------------------------------------- history

\* No register or deregister call on the instance has returned yet.
NoHistory == [data |-> "none", money |-> "none"]

\* The history after operation op, with n instances constructed: a register call
\* that returned makes its kind "registered", a deregister call "deregistered".
observed(h, op, n) ==
  LET grown == [i \in 1..n |-> IF i <= Len(h) THEN h[i] ELSE NoHistory]
  IN IF op.name = "registerDataHandler" /\ ~op.threw
     THEN [grown EXCEPT ![op.adapter].data = "registered"]
     ELSE IF op.name = "deregisterDataHandler" /\ ~op.threw
     THEN [grown EXCEPT ![op.adapter].data = "deregistered"]
     ELSE IF op.name = "registerMoneyHandler" /\ ~op.threw
     THEN [grown EXCEPT ![op.adapter].money = "registered"]
     ELSE IF op.name = "deregisterMoneyHandler" /\ ~op.threw
     THEN [grown EXCEPT ![op.adapter].money = "deregistered"]
     ELSE grown

Observe == history' = observed(history, lastOp', Len(adapters'))

\* ---------------------------------------------------------------- specifications

Init ==
  /\ plugins = [o \in HeapObjects |->
                  [compat |-> 0, listeners |-> <<>>, emitWrappers |-> <<>>,
                   requestHandlers |-> <<>>]]
  /\ adapters = <<>>
  /\ promises = <<>>
  /\ nextId = 1
  /\ v1Info \in V1Infos
  /\ lastOp = Returned("init", 0, "", "undefined")
  /\ calls = <<>>
  /\ history = <<>>

\* The ledger of the V1 plugins has a default connector.
InitConnected == Init /\ v1Info.connectors # <<>>

\* Wrapping and handler registration, with every argument.
Next ==
  \/ \E oldPlugin \in ConvertArgs : convert(oldPlugin) /\ Observe
  \/ \E a \in 1..Len(adapters), handler \in HandlerArgs :
       registerDataHandler(a, handler) /\ Observe
  \/ \E a \in 1..Len(adapters) : deregisterDataHandler(a) /\ Observe
  \/ \E a \in 1..Len(adapters), handler \in HandlerArgs :
       registerMoneyHandler(a, handler) /\ Observe
  \/ \E a \in 1..Len(adapters) : deregisterMoneyHandler(a) /\ Observe

Spec == InitConnected /\ [][Next]_vars

\* Outgoing prepares and the V1 events that answer them, with every event; a data
\* handler can be registered.
NextOutgoing ==
  \/ convert("v1") /\ Observe
  \/ \E a \in 1..Len(adapters) : registerDataHandler(a, "h1") /\ Observe
  \/ \E a \in 1..Len(adapters), behaviour \in V1Behaviours :
       sendData(a, LocalPrepare, behaviour) /\ Observe
  \/ \E i \in 1..Len(promises), ok \in BOOLEAN : sendTransferSettles(i, ok) /\ Observe
  \/ \E p \in HeapObjects, ev \in FulfillEvents \cup RejectEvents : emit(p, ev) /\ Observe

SpecOutgoing == InitConnected /\ [][NextOutgoing]_vars

\* sendData with every argument, on a ledger with and without a default connector.
NextSend ==
  \/ convert("v1") /\ Observe
  \/ \E a \in 1..Len(adapters), data \in SendArgs, behaviour \in V1Behaviours :
       sendData(a, data, behaviour) /\ Observe
  \/ \E i \in 1..Len(promises), ok \in BOOLEAN : sendTransferSettles(i, ok) /\ Observe
  \/ \E i \in 1..Len(promises), ok \in BOOLEAN, responseMessage \in ResponseMessages :
       sendRequestSettles(i, ok, responseMessage) /\ Observe

SpecSend == Init /\ [][NextSend]_vars

NextIncoming ==
  \/ convert("v1") /\ Observe
  \/ \E a \in 1..Len(adapters) : registerDataHandler(a, "h1") /\ Observe
  \/ \E a \in 1..Len(adapters) : deregisterDataHandler(a) /\ Observe
  \/ \E ev \in IncomingPrepares :
       Len(promises) < MaxIncoming /\ emit("v1", ev) /\ Observe
  \/ \E i \in 1..Len(promises), outcome \in HandlerOutcomes :
       dataHandlerSettles(i, outcome) /\ Observe

\* Incoming prepares and the data handler's answers.
SpecIncoming == InitConnected /\ [][NextIncoming]_vars

NextEvents ==
  \/ \E oldPlugin \in {"v1", "v1b"} : convert(oldPlugin) /\ Observe
  \/ \E p \in {"v1", "v1b"},
        ev \in PlainEvents \cup FulfillEvents \cup RejectEvents
                 \cup IncomingPrepares \cup IncomingTransferEvents :
       emit(p, ev) /\ Observe

\* The events of the V1 plugins and what the Plugin instances emit.
SpecEvents == InitConnected /\ [][NextEvents]_vars

\* An input of a conversion, drawn in the initial state.
Input(kind, arg) == [name |-> "input", kind |-> kind, arg |-> arg]

ConversionInputs ==
  {Input("prepare", packet) : packet \in ValidPrepares}
    \cup {Input("reject", packet) : packet \in RejectPackets}
    \cup {Input("buffer", buffer) : buffer \in Buffers}

\* No Plugin instance is constructed; an input is drawn.
InitConversions ==
  /\ plugins = [o \in HeapObjects |->
                  [compat |-> 0, listeners |-> <<>>, emitWrappers |-> <<>>,
                   requestHandlers |-> <<>>]]
  /\ adapters = <<>>
  /\ promises = <<>>
  /\ nextId = 1
  /\ v1Info \in V1Infos
  /\ lastOp \in ConversionInputs
  /\ calls = <<>>
  /\ history = <<>>

NextConversions ==
  \/ lastOp.name = "input" /\ lastOp.kind = "prepare" /\ prepareRoundTrip(lastOp.arg) /\ Observe
  \/ lastOp.name = "input" /\ lastOp.kind = "reject" /\ rejectionOf(lastOp.arg) /\ Observe
  \/ lastOp.name = "input" /\ lastOp.kind = "buffer" /\ encode(lastOp.arg) /\ Observe

\* The converters applied to the input drawn.
SpecConversions == InitConversions /\ [][NextConversions]_vars

\* Nothing is on the link.
Quiet == ~PrepareInFlight /\ ~RejectInFlight

NextLink ==
  \/ \E oldPlugin \in {"v1", "v1b"} : Quiet /\ convert(oldPlugin) /\ Observe
  \/ \E a \in 1..Len(adapters) : Quiet /\ registerDataHandler(a, "h1") /\ Observe
  \/ \E a \in 1..Len(adapters), data \in {LocalPrepare, RemotePrepare} :
       Quiet /\ sendData(a, data, "promise") /\ Observe
  \/ deliverPrepare /\ Observe
  \/ deliverReject /\ Observe

\* Two Plugin instances over the two ends of one V1 link.
SpecLink == InitConnected /\ [][NextLink]_vars

NextTransfer ==
  \/ convert("v1") /\ Observe
  \/ \E a \in 1..Len(adapters) : registerMoneyHandler(a, "h1") /\ Observe
  \/ \E a \in 1..Len(adapters) : deregisterMoneyHandler(a) /\ Observe
  \/ \E ev \in IncomingTransferEvents :
       Len(promises) < MaxIncoming /\ emit("v1", ev) /\ Observe
  \/ \E i \in 1..Len(promises), ok \in BOOLEAN : moneyHandlerSettles(i, ok) /\ Observe

\* Incoming optimistic transfers and the money handler's answers.
SpecTransfer == InitConnected /\ [][NextTransfer]_vars

NextRewrap ==
  \/ convert("v1") /\ Observe
  \/ \E a \in 1..Len(adapters), handler \in Callables :
       registerDataHandler(a, handler) /\ Observe
  \/ \E a \in 1..Len(adapters), handler \in Callables :
       registerMoneyHandler(a, handler) /\ Observe
  \/ \E a \in 1..Len(adapters) : sendData(a, LocalPrepare, "promise") /\ Observe
  \/ \E ev \in AnswerEvents : emit("v1", ev) /\ Observe

\* convert is called again and again while handlers are registered and sends are in
\* flight.
SpecRewrap == InitConnected /\ [][NextRewrap]_vars

NextPending ==
  \/ convert("v1") /\ Observe
  \/ \E a \in 1..Len(adapters) : registerDataHandler(a, "h1") /\ Observe
  \/ \E a \in 1..Len(adapters) : deregisterDataHandler(a) /\ Observe
  \/ \E a \in 1..Len(adapters), behaviour \in V1Behaviours :
       sendData(a, LocalPrepare, behaviour) /\ Observe
  \/ \E i \in 1..Len(promises), ok \in BOOLEAN : sendTransferSettles(i, ok) /\ Observe
  \/ \E i \in 1..Len(promises) : expiryPasses(i) /\ Observe
  \/ \E ev \in AnswerEvents \cup {PlainEvent("disconnect", <<>>)} : emit("v1", ev) /\ Observe

\* Pending sends and everything that happens while they are pending.
SpecPending == InitConnected /\ [][NextPending]_vars

NextAck ==
  \/ convert("v1") /\ Observe
  \/ \E a \in 1..Len(adapters) : registerDataHandler(a, "h1") /\ Observe
  \/ \E ev \in IncomingPrepares :
       Len(promises) < MaxIncoming /\ emit("v1", ev) /\ Observe
  \/ \E ev \in IncomingPrepares :
       Len(promises) < MaxIncoming /\ emitAckThrows("v1", ev) /\ Observe
  \/ \E i \in 1..Len(promises), outcome \in HandlerOutcomes :
       dataHandlerSettles(i, outcome) /\ Observe
  \/ \E i \in 1..Len(promises), outcome \in HandlerOutcomes :
       dataHandlerSettlesAckThrows(i, outcome) /\ Observe

\* Incoming prepares on a V1 plugin whose acknowledgment calls return or throw.
SpecAck == InitConnected /\ [][NextAck]_vars

NextSync ==
  \/ convert("v1") /\ Observe
  \/ \E a \in 1..Len(adapters) : sendData(a, LocalPrepare, "promise") /\ Observe
  \/ \E a \in 1..Len(adapters),
        type \in {"outgoing_fulfill", "outgoing_reject", "outgoing_cancel"} :
       sendDataAnswered(a, LocalPrepare, type) /\ Observe
  \/ \E i \in 1..Len(promises), ok \in BOOLEAN : sendTransferSettles(i, ok) /\ Observe
  \/ \E ev \in AnswerEvents : emit("v1", ev) /\ Observe

\* Sends on a V1 plugin that answers some transfers from inside sendTransfer.
SpecSync == InitConnected /\ [][NextSync]_vars

NextRequest ==
  \/ convert("v1") /\ Observe
  \/ \E a \in 1..Len(adapters) : registerDataHandler(a, "h1") /\ Observe
  \/ \E a \in 1..Len(adapters) : sendData(a, LocalPrepare, "promise") /\ Observe
  \/ \E a \in 1..Len(adapters), request \in Requests :
       Len(promises) < MaxIncoming /\ _handleRequest(a, request) /\ Observe
  \/ \E i \in 1..Len(promises), outcome \in HandlerOutcomes :
       requestHandlerSettles(i, outcome) /\ Observe

\* Inbound V1 requests and the data handler's answers, with sends in flight.
SpecRequest == InitConnected /\ [][NextRequest]_vars

NextPassthrough ==
  \/ convert("v1") /\ Observe
  \/ \E a \in 1..Len(adapters), type \in Range(PASSTHROUGH_EVENTS) : on(a, type) /\ Observe
  \/ \E ev \in PlainEvents : emit("v1", ev) /\ Observe

\* The events the V1 plugin emits and the listeners the host attaches to the Plugin
\* instance.
SpecPassthrough == InitConnected /\ [][NextPassthrough]_vars

\* The V1 plugin emits a terminal event that carries the id of send i.
V1Answers(i) ==
  /\ i <= Len(promises)
  /\ \E ev \in FulfillEvents \cup RejectEvents :
       ev.id = promises[i].id /\ emit("v1", ev) /\ Observe

\* SpecOutgoing with a V1 plugin that keeps emitting terminal events for every
\* transfer it was given.
SpecOutgoingFair ==
  SpecOutgoing /\ \A i \in 1..MaxSends : WF_vars(V1Answers(i))

\* ---------------------------------------------------------------- properties

\* The heap objects convert wraps: no version marker of 2, and a sendTransfer.
V1Plugins == {x \in HeapObjects : ObjVersion[x] # 2 /\ ObjSendTransfer[x]}

\* C1: for a V1 plugin x, the first convert(x) constructs an instance and caches it
\* on x; the cached instance never changes afterwards, every later convert(x)
\* returns that very instance, and convert of an instance returns the instance
\* itself, so convert(convert(x)) is convert(x).
C1_SameInstance ==
  [][/\ \A x \in V1Plugins :
          /\ (plugins[x].compat = 0 /\ convert(x)) =>
                /\ plugins'[x].compat = Len(adapters')
                /\ adapters'[plugins'[x].compat].oldPlugin = x
                /\ lastOp' = Returned("convert", 0, x, AdapterRef(plugins'[x].compat))
          /\ plugins[x].compat # 0 =>
                /\ plugins'[x].compat = plugins[x].compat
                /\ convert(x) =>
                     /\ lastOp' = Returned("convert", 0, x, AdapterRef(plugins[x].compat))
                     /\ adapters' = adapters
     /\ \A i \in 1..Len(adapters) :
          convert(AdapterRef(i)) =>
            /\ lastOp' = Returned("convert", 0, AdapterRef(i), AdapterRef(i))
            /\ adapters' = adapters
            /\ plugins' = plugins
    ]_vars

\* A later convert of v1 returned the instance a handler was registered on before,
\* while v1b has an instance of its own.
C1_Witness ==
  /\ Len(adapters) = 2
  /\ plugins["v1"].compat # 0
  /\ lastOp = Returned("convert", 0, "v1", AdapterRef(plugins["v1"].compat))
  /\ adapters[plugins["v1"].compat]._dataHandler # None

\* C2: convert(p) of a plugin p whose constructor.version is 2 returns p and changes
\* nothing: no instance is constructed, and p's listeners, emit wrappers, request
\* handlers and COMPAT_SYMBOL slot stay as they are.
C2_Passthrough ==
  [][\A p \in HeapObjects \cup AdapterRefs :
       (constructorVersion(p) = 2 /\ convert(p)) =>
          /\ lastOp' = Returned("convert", 0, p, p)
          /\ adapters' = adapters
          /\ plugins' = plugins
    ]_vars

\* convert returned the V2 plugin, which has sendData and no sendTransfer, while
\* both V1 plugins are wrapped.
C2_Witness ==
  /\ lastOp = Returned("convert", 0, "v2", "v2")
  /\ Len(adapters) = 2
  /\ plugins["v2"] = [compat |-> 0, listeners |-> <<>>, emitWrappers |-> <<>>,
                      requestHandlers |-> <<>>]

\* C3 as stated: convert fails for every argument that is not an object and for
\* every argument that has no sendTransfer, whatever its version marker.
C3_AsStated ==
  (/\ lastOp.name = "convert"
   /\ \/ typeOf(lastOp.arg) # "object"
      \/ lastOp.arg = Null
      \/ IsAdapter(lastOp.arg)
      \/ ~ObjSendTransfer[lastOp.arg])
  => lastOp.threw

\* C3: convert fails with a TypeError exactly for the arguments that are not an
\* object, for null, and for the objects that have neither a version marker of 2
\* nor a sendTransfer; the version marker is read before sendTransfer is looked
\* for.  When it fails, no instance is constructed and no object is subscribed to.
C3_CapabilityCheck ==
  [][\A p \in ConvertArgs :
       convert(p) =>
         /\ lastOp'.threw <=>
              \/ typeOf(p) # "object"
              \/ p = Null
              \/ (constructorVersion(p) # 2 /\ ~ObjSendTransfer[p])
         /\ lastOp'.threw =>
              /\ lastOp'.result = "TypeError"
              /\ adapters' = adapters
              /\ plugins' = plugins
    ]_vars

\* convert failed for the object with neither marker nor sendTransfer, and left it
\* as it was.
C3_Witness ==
  /\ lastOp = Threw("convert", 0, "obj", "TypeError")
  /\ plugins["obj"].listeners = <<>>
  /\ Len(adapters) >= 1

\* C4: on one instance, a registerDataHandler call made while the last data-handler
\* call that returned was a registerDataHandler call fails with
\* DataHandlerAlreadyRegisteredError, and a registerDataHandler call with a callable
\* made while the last one that returned was a deregisterDataHandler call returns
\* and installs the callable.
C4_SingleRegistration ==
  [][\A a \in 1..Len(adapters), handler \in HandlerArgs :
       registerDataHandler(a, handler) =>
         /\ history[a].data = "registered" =>
              lastOp' = Threw("registerDataHandler", a, handler,
                              "DataHandlerAlreadyRegisteredError")
         /\ (history[a].data = "deregistered" /\ handler \in Callables) =>
              /\ lastOp' = Returned("registerDataHandler", a, handler, "undefined")
              /\ adapters'[a]._dataHandler = handler
    ]_vars

\* A registration failed on the first instance after a registration, while on the
\* second instance a deregistration was the last call that returned.
C4_Witness ==
  /\ lastOp = Threw("registerDataHandler", 1, "h2", "DataHandlerAlreadyRegisteredError")
  /\ history[1].data = "registered"
  /\ adapters[1]._dataHandler = "h1"
  /\ Len(adapters) = 2
  /\ history[2].data = "deregistered"

\* The outcome the registration rule gives for a slot and an argument.
RuleOutcome(name, a, slot, handler, alreadyRegistered) ==
  IF slot # None THEN Threw(name, a, handler, alreadyRegistered)
  ELSE IF handler \notin Callables THEN Threw(name, a, handler, "InvalidFieldsError")
  ELSE Returned(name, a, handler, "undefined")

\* C5: registerMoneyHandler and deregisterMoneyHandler follow the rules of the data
\* pair on the money slot (a registration after a registration fails with
\* MoneyHandlerAlreadyRegisteredError, one after a deregistration installs the
\* callable, deregistration always empties the slot), the outcome of a money call
\* depends on the money slot and the argument only, and no call of one kind changes
\* the slot of the other kind.
C5_MoneyHandler ==
  [][\A a \in 1..Len(adapters) :
       /\ \A handler \in HandlerArgs :
            /\ registerMoneyHandler(a, handler) =>
                 /\ lastOp' = RuleOutcome("registerMoneyHandler", a, adapters[a]._moneyHandler,
                                          handler, "MoneyHandlerAlreadyRegisteredError")
                 /\ history[a].money = "registered" => lastOp'.threw
                 /\ (history[a].money = "deregistered" /\ handler \in Callables) =>
                      (~lastOp'.threw /\ adapters'[a]._moneyHandler = handler)
                 /\ lastOp'.threw => adapters' = adapters
                 /\ adapters'[a]._dataHandler = adapters[a]._dataHandler
            /\ registerDataHandler(a, handler) =>
                 /\ lastOp' = RuleOutcome("registerDataHandler", a, adapters[a]._dataHandler,
                                          handler, "DataHandlerAlreadyRegisteredError")
                 /\ adapters'[a]._moneyHandler = adapters[a]._moneyHandler
       /\ deregisterMoneyHandler(a) =>
            /\ lastOp' = Returned("deregisterMoneyHandler", a, "", "undefined")
            /\ adapters'[a]._moneyHandler = None
            /\ adapters'[a]._dataHandler = adapters[a]._dataHandler
       /\ deregisterDataHandler(a) =>
            adapters'[a]._moneyHandler = adapters[a]._moneyHandler
    ]_vars

\* A money registration failed on an occupied money slot while the data slot, once
\* occupied, was empty.
C5_Witness ==
  /\ lastOp = Threw("registerMoneyHandler", 1, "h2", "MoneyHandlerAlreadyRegisteredError")
  /\ adapters[1]._moneyHandler = "h1"
  /\ adapters[1]._dataHandler = None
  /\ history[1].data = "deregistered"

\* C6: registerDataHandler fails with DataHandlerAlreadyRegisteredError whenever the
\* slot is occupied, and with InvalidFieldsError when the slot is empty and the
\* argument is not callable; a failing register call of either kind changes no
\* instance, no register call replaces an installed handler, and a slot holds one
\* callable or nothing.
C6_FailingRegister ==
  /\ [](\A a \in 1..Len(adapters) :
          /\ adapters[a]._dataHandler \in Callables \cup {None}
          /\ adapters[a]._moneyHandler \in Callables \cup {None})
  /\ [][\A a \in 1..Len(adapters), handler \in HandlerArgs :
          /\ registerDataHandler(a, handler) =>
               /\ adapters[a]._dataHandler # None =>
                    /\ lastOp' = Threw("registerDataHandler", a, handler,
                                       "DataHandlerAlreadyRegisteredError")
                    /\ adapters'[a]._dataHandler = adapters[a]._dataHandler
               /\ (adapters[a]._dataHandler = None /\ handler \notin Callables) =>
                    lastOp' = Threw("registerDataHandler", a, handler, "InvalidFieldsError")
               /\ lastOp'.threw => adapters' = adapters
          /\ registerMoneyHandler(a, handler) =>
               /\ adapters[a]._moneyHandler # None =>
                    adapters'[a]._moneyHandler = adapters[a]._moneyHandler
               /\ lastOp'.threw => adapters' = adapters
       ]_vars

\* A register call with an argument that is not callable failed on an occupied slot
\* with DataHandlerAlreadyRegisteredError, and the handler is still installed.
C6_Witness ==
  /\ lastOp = Threw("registerDataHandler", 1, "object", "DataHandlerAlreadyRegisteredError")
  /\ adapters[1]._dataHandler = "h2"

\* C7: deregisterDataHandler always returns and leaves the data slot empty; on an
\* empty slot it changes no instance, so a second call in a row adds nothing to
\* the first.
C7_Deregister ==
  [][\A a \in 1..Len(adapters) :
       deregisterDataHandler(a) =>
         /\ lastOp' = Returned("deregisterDataHandler", a, "", "undefined")
         /\ adapters'[a]._dataHandler = None
         /\ adapters[a]._dataHandler = None => adapters' = adapters
         /\ \A b \in 1..Len(adapters) : b # a => adapters'[b] = adapters[b]
    ]_vars

\* deregisterDataHandler returned on the second instance, whose money handler stays
\* installed, while the first instance keeps the data handler it registered.
C7_Witness ==
  /\ lastOp = Returned("deregisterDataHandler", 2, "", "undefined")
  /\ adapters[2]._dataHandler = None
  /\ adapters[2]._moneyHandler = "h1"
  /\ adapters[1]._dataHandler = "h2"

\* C8: when the V1 plugin emits outgoing_fulfill, outgoing_reject or outgoing_cancel
\* with a transfer id that no instance listening has in its transfers table, emit
\* returns, no promise is settled or changed, and no instance changes (its
\* transfers table and both handler slots stay as they are).
C8_UnknownId ==
  [][(lastOp'.name = "emit" /\ ~lastOp'.tracked) =>
        /\ ~lastOp'.threw
        /\ lastOp'.settled = {}
        /\ promises' = promises
        /\ adapters' = adapters
    ]_vars

\* outgoing_fulfill with an unknown id was emitted while a send was pending and a
\* data handler was registered.
C8_Witness ==
  /\ lastOp.name = "emit"
  /\ lastOp.type = "outgoing_fulfill"
  /\ ~lastOp.tracked
  /\ \E i \in 1..Len(promises) : promises[i].state = "pending"
  /\ adapters[1]._dataHandler # None

\* The reject packet fields lpi1RejectionToIlpReject takes from a reason whose
\* additional_info is absent or an object.
RejectFields(reason) ==
  [code |-> reason.code,
   triggeredBy |-> reason.triggered_by,
   message |-> IF reason.message # "" THEN reason.message
               ELSE reason.additional_info.message,
   data |-> fromBase64(reason.additional_info.data)]

\* C9: when outgoing_reject or outgoing_cancel is emitted with the id of a pending
\* send and a reason that converts, the promise of that send is fulfilled (not
\* rejected) with a reject packet that carries the code, the trigger, the message
\* and the data of that reason.
C9_RejectResolves ==
  [][(lastOp'.name = "emit" /\ lastOp'.type # "outgoing_fulfill" /\ lastOp'.tracked) =>
       \A a \in 1..Len(adapters), ev \in RejectEvents :
         (/\ ev.type = lastOp'.type
          /\ Tracked(a, ev.id)
          /\ promises[adapters[a].transfers[ev.id]].state = "pending"
          /\ ~lpi1RejectionToIlpReject(ev.reason).threw
          /\ emit(adapters[a].oldPlugin, ev))
         => LET promise == promises'[adapters[a].transfers[ev.id]]
            IN /\ promise.state = "fulfilled"
               /\ promise.value.type = "packet"
               /\ deserializeIlpReject(promise.value.bytes) = Value(RejectFields(ev.reason))
    ]_vars

\* outgoing_cancel settled a pending send: its promise is fulfilled with the reject
\* packet of the cancellation reason.
C9_Witness ==
  /\ lastOp.name = "emit"
  /\ lastOp.type = "outgoing_cancel"
  /\ \E i \in lastOp.settled :
       /\ promises[i].state = "fulfilled"
       /\ deserializeIlpReject(promises[i].value.bytes) =
            Value([code |-> "R00", triggeredBy |-> "g.a.bob", message |-> "late",
                   data |-> <<>>])

\* C10: when outgoing_reject or outgoing_cancel is emitted with the id of a pending
\* send and a reason lpi1RejectionToIlpReject fails on, the promise of that send is
\* rejected with the error of the conversion, and emit returns: the listener throws
\* nothing.
C10_ConversionFailure ==
  [][(lastOp'.name = "emit" /\ lastOp'.type # "outgoing_fulfill" /\ lastOp'.tracked) =>
       \A a \in 1..Len(adapters), ev \in RejectEvents :
         (/\ ev.type = lastOp'.type
          /\ Tracked(a, ev.id)
          /\ promises[adapters[a].transfers[ev.id]].state = "pending"
          /\ lpi1RejectionToIlpReject(ev.reason).threw
          /\ emit(adapters[a].oldPlugin, ev))
         => /\ promises'[adapters[a].transfers[ev.id]] =
                 [promises[adapters[a].transfers[ev.id]] EXCEPT
                    !.state = "rejected",
                    !.value = ErrorValue(lpi1RejectionToIlpReject(ev.reason).error)]
            /\ ~lastOp'.threw
    ]_vars

\* outgoing_reject with a reason whose additional_info is null settled a pending
\* send: its promise is rejected with the TypeError of the conversion.
C10_Witness ==
  /\ lastOp.name = "emit"
  /\ lastOp.type = "outgoing_reject"
  /\ ~lastOp.threw
  /\ \E i \in lastOp.settled :
       /\ promises[i].state = "rejected"
       /\ promises[i].value = ErrorValue("TypeError")

\* C11: when sendTransfer throws inside sendData, the promise sendData returns is
\* rejected with the error thrown; when the promise sendTransfer returned rejects
\* while the sendData promise is pending, the sendData promise is rejected with
\* that rejection.
C11_SendTransferFailure ==
  [][/\ lastOp'.name = "sendData" =>
          \A a \in 1..Len(adapters) :
            sendData(a, LocalPrepare, "throws") =>
              /\ lastOp'.state = "rejected"
              /\ lastOp'.value = ErrorValue("SendTransferError")
              /\ lastOp'.promise = Len(promises) + 1
              /\ promises'[lastOp'.promise].state = "rejected"
              /\ promises'[lastOp'.promise].value = ErrorValue("SendTransferError")
     /\ lastOp'.name = "sendTransferSettles" =>
          \A i \in 1..Len(promises) :
            (promises[i].state = "pending" /\ sendTransferSettles(i, FALSE)) =>
              promises' = [promises EXCEPT ![i].state = "rejected",
                                           ![i].value = ErrorValue("SendTransferError")]
    ]_vars

\* The promise sendTransfer returned for the second send rejected while the promise
\* of the first send was still pending: the second is rejected, the first is not.
C11_Witness ==
  /\ lastOp = [name |-> "sendTransferSettles", promise |-> 2, ok |-> FALSE]
  /\ Len(promises) = 2
  /\ promises[1].state = "pending"
  /\ promises[2].state = "rejected"
  /\ promises[2].value = ErrorValue("SendTransferError")

\* The promise of a send was settled by a terminal event: resolve is called by the
\* listeners only, and so is reject with an error other than sendTransfer's.
TerminalEventSeen(promise) ==
  \/ promise.state = "fulfilled"
  \/ promise.state = "rejected" /\ promise.value # ErrorValue("SendTransferError")

\* C12 as stated: the keys of an instance's transfers table are ids of sends of that
\* instance, the id of a send is a key once sendData has called sendTransfer for
\* it, and it is a key no longer once a terminal event for it has been handled.
C12_AsStated ==
  /\ \A a \in 1..Len(adapters) :
       DOMAIN adapters[a].transfers \subseteq
         {promises[i].id : i \in {j \in 1..Len(promises) : promises[j].adapter = a}}
  /\ (lastOp.name = "sendData" /\ lastOp.promise # 0) =>
       Tracked(lastOp.adapter, promises[lastOp.promise].id)
  /\ \A i \in 1..Len(promises) :
       TerminalEventSeen(promises[i]) => ~Tracked(promises[i].adapter, promises[i].id)

\* C13 as stated: with a V1 plugin that emits terminal events carrying the id of
\* every transfer it was given, whatever they carry, the promise of every send is
\* eventually settled.
C13_AsStated ==
  \A i \in 1..MaxSends :
    [](i <= Len(promises) => <>(i <= Len(promises) /\ promises[i].state # "pending"))

\* The calls of sendTransfer and sendRequest among the calls of the last operation.
SendCalls == {k \in 1..Len(calls) : calls[k].fn \in {"sendTransfer", "sendRequest"}}

\* C14: sendData with a prepare packet for 'peer.config' calls neither sendTransfer
\* nor sendRequest, adds no key to the transfers table and leaves no promise
\* waiting for an event: it returns a promise that is fulfilled already, with a
\* fulfill packet whose fulfillment is 32 zero bytes and whose data starts with the
\* account name of the V1 plugin and ends with its currency.
C14_PeerConfig ==
  [][lastOp'.name = "sendData" =>
       \A a \in 1..Len(adapters), behaviour \in V1Behaviours :
         sendData(a, PeerConfigPrepare, behaviour) =>
           /\ lastOp'.state = "fulfilled"
           /\ lastOp'.promise = 0
           /\ adapters' = adapters
           /\ promises' = promises
           /\ \A k \in 1..Len(calls') : calls'[k].fn \notin {"sendTransfer", "sendRequest"}
           /\ LET packet == deserializeIlpFulfill(lastOp'.value.bytes)
                  name == ReadVar(packet.value.data)
                  currency == ReadVar(Tail(name.rest))
              IN /\ lastOp'.value.type = "packet"
                 /\ ~packet.threw
                 /\ packet.value.fulfillment = [i \in 1..32 |-> 0]
                 /\ name.ok /\ name.val = AsciiBytes(v1Info.account)
                 /\ Len(name.rest) >= 1
                 /\ currency.ok /\ currency.val = AsciiBytes(v1Info.currency)
                 /\ currency.rest = <<>>
    ]_vars

\* sendData answered a peer.config prepare at once while an earlier send waits for
\* its event.
C14_Witness ==
  /\ lastOp.name = "sendData"
  /\ lastOp.data = PeerConfigPrepare
  /\ lastOp.state = "fulfilled"
  /\ SendCalls = {}
  /\ Len(promises) = 1
  /\ promises[1].state = "pending"

\* The destination of a prepare packet.
DestinationOf(data) == deserializeIlpPrepare(data.bytes).value.destination

\* The transfers the last operation handed to sendTransfer.
TransfersSent ==
  {calls[k].transfer : k \in {j \in 1..Len(calls) : calls[j].fn = "sendTransfer"}}

\* C15: for a destination that is present and starts with the ledger prefix, the
\* transfer goes to the prefix followed by the first dot-separated segment of what
\* follows the prefix in the destination; for any other destination it goes to the
\* first connector, when the ledger has one.
C15_Routing ==
  [][lastOp'.name = "sendData" =>
       \A a \in 1..Len(adapters), behaviour \in V1Behaviours, data \in RoutedPrepares :
         sendData(a, data, behaviour) =>
           LET destination == DestinationOf(data)
               prefix == v1Info.prefix
               local == destination # "" /\ startsWith(destination, prefix)
               sent == {calls'[k].transfer :
                          k \in {j \in 1..Len(calls') : calls'[j].fn = "sendTransfer"}}
           IN /\ local =>
                   /\ Cardinality(sent) = 1
                   /\ \A transfer \in sent :
                        /\ startsWith(transfer.to, prefix)
                        /\ IndexOf(substring(transfer.to, Len(prefix)), ".") = 0
                        /\ \/ destination = transfer.to
                           \/ startsWith(destination, transfer.to \o ".")
              /\ (~local /\ v1Info.connectors # <<>>) =>
                   /\ Cardinality(sent) = 1
                   /\ \A transfer \in sent : transfer.to = v1Info.connectors[1]
    ]_vars

\* A prepare for g.a.bob.x went to g.a.bob on a ledger without a connector.
C15_Witness ==
  /\ lastOp.name = "sendData"
  /\ lastOp.data = LocalPrepare
  /\ v1Info.connectors = <<>>
  /\ \E transfer \in TransfersSent : transfer.to = "g.a.bob"

\* C16 as stated: on a ledger without a connector, sendData fails with the routing
\* error for a destination that is absent, outside the prefix or the prefix
\* itself, and calls nothing with it; and no transfer ever goes to an empty
\* address or to the bare prefix.
C16_AsStated ==
  /\ (/\ lastOp.name = "sendData"
      /\ lastOp.data \in {NoDestinationPrepare, RemotePrepare, PrefixPrepare}
      /\ v1Info.connectors = <<>>)
     => /\ lastOp.state = "rejected"
        /\ lastOp.value = ErrorValue("Error")
        /\ SendCalls = {}
  /\ \A transfer \in TransfersSent : transfer.to \notin {"", Undefined, v1Info.prefix}

\* The calls of an acknowledgment kind the last operation made for transfer id.
Acks(fn, id) == {k \in 1..Len(calls) : calls[k].fn = fn /\ calls[k].id = id}

\* C17, as stated: when the V1 plugin emits incoming_prepare while no data handler is
\* registered, the adapter calls rejectIncomingTransfer for the transfer's id with
\* code T01, name 'Ledger Unreachable' and the account of this node as triggered_by,
\* it calls neither a handler nor fulfillCondition, and emit does not throw.
C17_AsStated ==
  [][\A ev \in IncomingPrepares :
       (/\ lastOp'.name = "emit"
        /\ \A a \in 1..Len(adapters) : adapters[a]._dataHandler = None
        /\ emit("v1", ev))
       => /\ ~lastOp'.threw
          /\ \E k \in 1..Len(calls') :
               /\ calls'[k].fn = "rejectIncomingTransfer"
               /\ calls'[k].id = ev.id
               /\ calls'[k].reason.code = "T01"
               /\ calls'[k].reason.name = "Ledger Unreachable"
               /\ calls'[k].reason.triggered_by = v1Info.account
          /\ \A k \in 1..Len(calls') : calls'[k].fn \notin {"dataHandler", "fulfillCondition"}
    ]_vars

\* C18: when the data handler answers an incoming prepare with a fulfill packet, the
\* adapter calls fulfillCondition once, with the transfer's id, the packet's
\* fulfillment in base64url and the packet's data wrapped in a legacy fulfillment
\* packet, and it does not call rejectIncomingTransfer; when the handler answers with
\* a reject packet, the adapter calls rejectIncomingTransfer once, with the transfer's
\* id and the reason decoded from the packet (its code, message, triggeredBy and
\* data), and it does not call fulfillCondition.
C18_Discriminant ==
  lastOp.name = "dataHandlerSettles" /\ ~lastOp.outcome.threw /\ lastOp.outcome.defined =>
    LET ilpFulfill == deserializeIlpFulfill(lastOp.outcome.bytes)
        ilpReject == deserializeIlpReject(lastOp.outcome.bytes)
    IN /\ ~ilpFulfill.threw =>
            /\ calls = <<fulfillCondition(
                           lastOp.id,
                           base64url(ilpFulfill.value.fulfillment),
                           base64url(serializeIlpFulfillment(
                                       [data |-> ilpFulfill.value.data])))>>
            /\ Acks("rejectIncomingTransfer", lastOp.id) = {}
       /\ ~ilpReject.threw =>
            /\ Len(calls) = 1
            /\ calls[1].fn = "rejectIncomingTransfer"
            /\ calls[1].id = lastOp.id
            /\ calls[1].reason.code = ilpReject.value.code
            /\ calls[1].reason.message = ilpReject.value.message
            /\ calls[1].reason.triggered_by = ilpReject.value.triggeredBy
            /\ calls[1].reason.additional_info.data = base64url(ilpReject.value.data)
            /\ Acks("fulfillCondition", lastOp.id) = {}

\* The handler has answered transfer 'in1' with a fulfill packet of fulfillment 1, 2
\* and data 5, and fulfillCondition was called with 'AQI' and the wrapped data.
C18_Witness ==
  /\ lastOp.name = "dataHandlerSettles"
  /\ lastOp.id = "in1"
  /\ lastOp.outcome.bytes = serializeIlpFulfill([fulfillment |-> <<1, 2>>, data |-> <<5>>])
  /\ calls = <<fulfillCondition("in1", "AQI",
                                base64url(serializeIlpFulfillment([data |-> <<5>>])))>>

\* The message of the error the handling of the handler's answer ends with, '' when it
\* ends with none: the handler's own error, the TypeError of reading byte 0 of
\* undefined, the decoder's error, or 'unknown ilp response packet.'.
HandlingError(outcome) ==
  IF outcome.threw THEN outcome.message
  ELSE IF ~outcome.defined THEN messageOf("TypeError")
  ELSE IF outcome.bytes = <<>> \/ outcome.bytes[1] \notin {TYPE_ILP_FULFILL, TYPE_ILP_REJECT}
  THEN "unknown ilp response packet."
  ELSE IF outcome.bytes[1] = TYPE_ILP_FULFILL /\ deserializeIlpFulfill(outcome.bytes).threw
  THEN messageOf(deserializeIlpFulfill(outcome.bytes).error)
  ELSE IF outcome.bytes[1] = TYPE_ILP_REJECT /\ deserializeIlpReject(outcome.bytes).threw
  THEN messageOf(deserializeIlpReject(outcome.bytes).error)
  ELSE ""

C20_AsStated ==
  [][\A ev \in IncomingPrepares :
       (lastOp'.name = "emit" /\ emit("v1", ev))
       => /\ ~lastOp'.threw
          /\ lpi1TransferToIlpPrepare(ev.transfer).threw =>
               \E k \in 1..Len(calls') :
                 calls'[k].fn = "rejectIncomingTransfer" /\ calls'[k].id = ev.id
    ]_vars

\* C21, as stated: handling incoming_transfer never throws to the V1 emitter and
\* never calls fulfillCondition or rejectIncomingTransfer; with no money handler
\* registered nothing is called, with one registered it is called with the
\* transfer's amount; and when the handler's promise is rejected nothing is called.
C21_AsStated ==
  /\ (lastOp.name = "emit" /\ lastOp.type = "incoming_transfer") =>
       /\ ~lastOp.threw
       /\ \A k \in 1..Len(calls) :
            calls[k].fn \notin {"fulfillCondition", "rejectIncomingTransfer"}
       /\ \A a \in 1..Len(adapters) :
            IF adapters[a]._moneyHandler = None
            THEN calls = <<>>
            ELSE \E k \in 1..Len(calls) :
                   calls[k].fn = "moneyHandler" /\ calls[k].amount \in {"10", "0"}
  /\ lastOp.name = "moneyHandlerSettles" => calls = <<>>

\* The emit calls on Plugin instance a among the calls cs.
Emissions(cs, a) == {k \in 1..Len(cs) : cs[k].fn = "emit" /\ cs[k].adapter = a}

C23_NotABuffer ==
  [][lastOp'.name = "sendData" =>
       \A a \in 1..Len(adapters), behaviour \in V1Behaviours :
         sendData(a, NotABuffer, behaviour) =>
           /\ lastOp'.state = "rejected"
           /\ lastOp'.value = ErrorValue("TypeError")
           /\ lastOp'.promise = 0
           /\ calls' = <<>>
           /\ adapters' = adapters
           /\ promises' = promises
           /\ nextId' = nextId
    ]_vars

\* sendData was called with something that is no Buffer while an earlier prepare
\* waits for its event: the entry of that prepare is still the only one.
C23_Witness ==
  /\ lastOp.name = "sendData"
  /\ lastOp.data = NotABuffer
  /\ lastOp.state = "rejected"
  /\ \E a \in 1..Len(adapters) : Cardinality(DOMAIN adapters[a].transfers) = 1

\* What the claim says a response message resolves to: the bytes of its ilp text if
\* it has one, else the JSON text of its custom object if that has a key, else no
\* bytes.
ExpectedResponse(responseMessage) ==
  IF responseMessage.ilp # "" THEN fromBase64(responseMessage.ilp)
  ELSE IF responseMessage.customKind = "object" /\ responseMessage.customJson # "{}"
  THEN AsciiBytes(responseMessage.customJson)
  ELSE <<>>

\* The resolution half of C24: when sendRequest's promise is fulfilled with a
\* response message, the promise of sendData is fulfilled with ExpectedResponse.
ResponseResolves ==
  (lastOp.name = "sendRequestSettles" /\ lastOp.ok /\ lastOp.response.defined) =>
    /\ promises[lastOp.promise].state = "fulfilled"
    /\ promises[lastOp.promise].value = PacketValue(ExpectedResponse(lastOp.response))

\* C24, as stated: every sendData with a Buffer that does not start with the prepare
\* type byte calls sendRequest exactly once, calls no sendTransfer and creates no
\* transfers entry; and its promise resolves as ResponseResolves says.
C24_AsStated ==
  [][/\ lastOp'.name = "sendData" =>
          \A a \in 1..Len(adapters), behaviour \in V1Behaviours :
            sendData(a, LegacyData, behaviour) =>
              /\ Cardinality({k \in 1..Len(calls') : calls'[k].fn = "sendRequest"}) = 1
              /\ \A k \in 1..Len(calls') : calls'[k].fn # "sendTransfer"
              /\ adapters' = adapters
     /\ ResponseResolves'
    ]_vars

\* C24, amended: sendData with a Buffer that does not start with the prepare type byte
\* calls no sendTransfer and creates no transfers entry; when the ledger has a default
\* connector it calls sendRequest exactly once, addressed to that connector, and when
\* it has none the returned promise is rejected with the routing error and sendRequest
\* is not called; and when sendRequest's promise is fulfilled with a response message,
\* the promise of sendData resolves with the bytes of the message's ilp if it has
\* one (also when it has a custom object too), else with the JSON text of its custom
\* object if that has a key, else with an empty Buffer.
C24_LegacyRequest ==
  [][/\ lastOp'.name = "sendData" =>
          \A a \in 1..Len(adapters), behaviour \in V1Behaviours :
            sendData(a, LegacyData, behaviour) =>
              /\ \A k \in 1..Len(calls') : calls'[k].fn # "sendTransfer"
              /\ adapters' = adapters
              /\ IF v1Info.connectors # <<>>
                 THEN /\ Cardinality({k \in 1..Len(calls') :
                                        calls'[k].fn = "sendRequest"}) = 1
                      /\ \A k \in 1..Len(calls') :
                           calls'[k].fn = "sendRequest" =>
                             /\ calls'[k].message.to = v1Info.connectors[1]
                             /\ calls'[k].message.ilp = base64url(LegacyData.bytes)
                 ELSE /\ \A k \in 1..Len(calls') : calls'[k].fn # "sendRequest"
                      /\ lastOp'.state = "rejected"
                      /\ lastOp'.value = ErrorValue("Error")
     /\ ResponseResolves'
    ]_vars

\* sendRequest answered with a message that has both a packet and a custom object,
\* and the promise of sendData was fulfilled with the packet's bytes.
C24_Witness ==
  /\ lastOp.name = "sendRequestSettles"
  /\ lastOp.ok
  /\ lastOp.response = ResponseMessage(TRUE, "DQA", "object", "{\"a\":1}")
  /\ promises[lastOp.promise].state = "fulfilled"
  /\ promises[lastOp.promise].value = PacketValue(<<13, 0>>)

\* C25: for every valid prepare packet P, the prepare packet made from the V1
\* transfer made from P exists (the conversion back does not fail) and has P's
\* amount, execution condition, expiry and destination.
C25_RoundTrip ==
  lastOp.name = "prepareRoundTrip" =>
    /\ ~lastOp.result.threw
    /\ LET P == deserializeIlpPrepare(lastOp.arg)
           back == deserializeIlpPrepare(lastOp.result.value)
       IN /\ ~P.threw /\ ~back.threw
          /\ back.value.amount = P.value.amount
          /\ back.value.executionCondition = P.value.executionCondition
          /\ back.value.expiresAt = P.value.expiresAt
          /\ back.value.destination = P.value.destination

\* A prepare whose condition is one byte long (its base64 text ends in two '=', of
\* which base64url leaves one) and whose expiry has a leading zero went through both
\* conversions.
C25_Witness ==
  /\ lastOp.name = "prepareRoundTrip"
  /\ lastOp.transfer.executionCondition = "AQ="
  /\ lastOp.transfer.expiresAt = "1970-01-01T00:00:00.005Z"
  /\ ~lastOp.result.threw
  /\ deserializeIlpPrepare(lastOp.result.value).value.destination = "g.b.c.d"

\* C26: over a V1 link between two Plugin instances, when the transfer of A's
\* sendData arrives at B while B has no data handler, B calls rejectIncomingTransfer
\* for the transfer's id with code T01; and when that rejection arrives at A as
\* outgoing_reject, the pending promise of A's sendData is fulfilled (not rejected)
\* with a reject packet that decodes and whose code is T01, the code B gave.
C26_EndToEnd ==
  [][/\ (PrepareInFlight /\ lastOp'.name = "emit") =>
          \A b \in 1..Len(adapters) :
            (/\ adapters[b].oldPlugin = Peer(adapters[lastOp.adapter].oldPlugin)
             /\ adapters[b]._dataHandler = None)
            => \E k \in 1..Len(calls'), j \in 1..Len(calls) :
                 /\ calls[j].fn = "sendTransfer"
                 /\ calls'[k].fn = "rejectIncomingTransfer"
                 /\ calls'[k].id = calls[j].transfer.id
                 /\ calls'[k].reason.code = "T01"
     /\ (RejectInFlight /\ lastOp'.name = "emit") =>
          \A k \in 1..Len(calls) :
            calls[k].fn = "rejectIncomingTransfer" =>
              \E i \in 1..Len(promises) :
                /\ promises[i].kind = "prepare"
                /\ promises[i].id = calls[k].id
                /\ promises[i].state = "pending"
                /\ promises'[i].state = "fulfilled"
                /\ ~deserializeIlpReject(promises'[i].value.bytes).threw
                /\ deserializeIlpReject(promises'[i].value.bytes).value.code = "T01"
                /\ calls[k].reason.code = "T01"
    ]_vars

\* The rejection of B, which has no data handler, has arrived at A as
\* outgoing_reject, and the promise of A's sendData is fulfilled with a reject packet
\* of code T01 that names B's account and B's message.
C26_Witness ==
  /\ lastOp.name = "emit"
  /\ lastOp.type = "outgoing_reject"
  /\ \E i \in lastOp.settled :
       /\ promises[i].state = "fulfilled"
       /\ promises[i].adapter # 0
       /\ adapters[promises[i].adapter].oldPlugin = lastOp.plugin
       /\ promises[i].value =
            PacketValue(serializeIlpReject(
              [code |-> "T01", triggeredBy |-> v1Info.account,
               message |-> "No data handler registered", data |-> <<>>]).value)

\* C27, as stated: the reason ilpRejectToLpi1Rejection makes of a reject packet is
\* always produced, its name is the table's name for a code of the table, and it is
\* 'Unknown' for any other code.
C27_AsStated ==
  lastOp.name = "ilpRejectToLpi1Rejection" =>
    /\ ~lastOp.result.threw
    /\ lastOp.result.value.code = deserializeIlpReject(lastOp.arg).value.code
    /\ lastOp.result.value.name =
         IF lastOp.result.value.code \in DOMAIN ERROR_NAMES
         THEN ERROR_NAMES[lastOp.result.value.code]
         ELSE "Unknown"

\* s without the '=' characters at its end.
RECURSIVE StripPads(_)
StripPads(s) ==
  IF Len(s) > 0 /\ CharAt(s, Len(s)) = "=" THEN StripPads(SubSeq(s, 1, Len(s) - 1)) ELSE s

\* C28, as stated: base64url(bytes) is the standard base64 text of bytes with every
\* '+' replaced by '-', every '/' by '_' and all '=' at the end removed, and it holds
\* no '=', '+' or '/', whatever the length of bytes.
C28_AsStated ==
  lastOp.name = "base64url" =>
    /\ lastOp.result =
         StripPads(replaceAll(replaceAll(toBase64(lastOp.arg), "+", "-"), "/", "_"))
    /\ \A i \in 1..Len(lastOp.result) : CharAt(lastOp.result, i) \notin {"=", "+", "/"}

C30_DistinctIds ==
  [][/\ (lastOp'.name = "sendData" /\ lastOp'.promise # 0) =>
          LET a == lastOp'.adapter
              id == promises'[lastOp'.promise].id
          IN /\ id \notin DOMAIN adapters[a].transfers
             /\ DOMAIN adapters'[a].transfers = DOMAIN adapters[a].transfers \cup {id}
             /\ \A k \in DOMAIN adapters[a].transfers :
                  adapters'[a].transfers[k] = adapters[a].transfers[k]
             /\ \A i \in 1..Len(promises) : promises[i].id # id
     /\ lastOp'.name = "emit" =>
          /\ adapters' = adapters
          /\ promises' # promises =>
               \A ev \in FulfillEvents \cup RejectEvents :
                 (ev.type = lastOp'.type /\ emit("v1", ev)) =>
                   \A i \in 1..Len(promises) :
                     promises[i].id # ev.id => promises'[i] = promises[i]
    ]_vars

\* Two sends are in flight under different ids; the V1 plugin has emitted a terminal
\* event that fulfilled the second, and the first is still pending with its entry.
C30_Witness ==
  /\ Len(promises) = 2
  /\ promises[1].id # promises[2].id
  /\ promises[1].adapter = promises[2].adapter
  /\ promises[1].state = "pending"
  /\ promises[2].state = "fulfilled"
  /\ lastOp.name = "emit"
  /\ lastOp.settled = {2}
  /\ Tracked(promises[1].adapter, promises[1].id)

\* C31, as stated: when the V1 plugin emits an event of type connect, disconnect,
\* error or info_change while the Plugin instance has no listener for that type, the
\* emit call throws nothing and no listener is called; and attaching a listener
\* afterwards delivers nothing to it.
C31_AsStated ==
  /\ \A a \in 1..Len(adapters) :
       (/\ lastOp.name = "emit"
        /\ lastOp.plugin = adapters[a].oldPlugin
        /\ lastOp.type \in Range(PASSTHROUGH_EVENTS)
        /\ lastOp.type \notin adapters[a].listeners) =>
         /\ ~lastOp.threw
         /\ \A k \in 1..Len(calls) : calls[k].fn # "listener"
  /\ lastOp.name = "on" => calls = <<>>

\* C32: convert of a V1 plugin that is wrapped already returns the cached instance
\* and changes neither an instance (handler slots, transfers table) nor the plugin's
\* listeners, emit wrappers and request handlers nor a promise; a wrapped plugin has
\* one emit wrapper, one request handler and one listener for each of the five
\* subscribed event types at all times; and in every state a terminal event for the
\* id of a pending send settles that send and nothing else.
C32_RepeatedConvert ==
  [][/\ (lastOp'.name = "convert" /\ lastOp'.arg = "v1" /\ plugins["v1"].compat # 0) =>
          /\ lastOp' = Returned("convert", 0, "v1", AdapterRef(plugins["v1"].compat))
          /\ adapters' = adapters
          /\ plugins' = plugins
          /\ promises' = promises
     /\ plugins'["v1"].compat # 0 =>
          /\ Len(plugins'["v1"].emitWrappers) = 1
          /\ Len(plugins'["v1"].requestHandlers) = 1
          /\ \A k \in 1..Len(SUBSCRIBED_EVENTS) :
               Cardinality({j \in 1..Len(plugins'["v1"].listeners) :
                              plugins'["v1"].listeners[j].event = SUBSCRIBED_EVENTS[k]}) = 1
     /\ lastOp'.name = "emit" =>
          \A ev \in AnswerEvents, i \in 1..Len(promises) :
            (/\ promises[i].state = "pending"
             /\ promises[i].id = ev.id
             /\ ev.type = lastOp'.type
             /\ emit("v1", ev)) =>
              /\ promises'[i].state = "fulfilled"
              /\ lastOp'.settled = {i}
    ]_vars

\* convert has just been called on the wrapped plugin while both handlers are
\* registered, one send is pending and another was settled by its terminal event.
C32_Witness ==
  /\ lastOp = Returned("convert", 0, "v1", AdapterRef(1))
  /\ Len(adapters) = 1
  /\ adapters[1]._dataHandler = "h1"
  /\ adapters[1]._moneyHandler = "h2"
  /\ Len(promises) = 2
  /\ promises[1].state = "fulfilled"
  /\ promises[2].state = "pending"
  /\ Tracked(1, promises[2].id)

\* C33: an incoming_prepare whose transfer converts, emitted while a data handler is
\* registered, calls the handler in that very emit step, whether or not earlier
\* invocations are still pending, and its invocation is placed after all earlier
\* ones, which stay as they are; and when an invocation completes, in whatever
\* order, every acknowledgment call made carries the transfer id of the event that
\* started that invocation, and no other invocation changes.
C33_Overlap ==
  [][/\ (lastOp'.name = "emit" /\ lastOp'.type = "incoming_prepare") =>
          \A ev \in IncomingPrepares :
            LET a == plugins["v1"].compat
                ilpPrepare == lpi1TransferToIlpPrepare(ev.transfer)
            IN (/\ emit("v1", ev)
                /\ adapters[a]._dataHandler # None
                /\ ~ilpPrepare.threw) =>
                 /\ calls' = <<[fn |-> "dataHandler", handler |-> adapters[a]._dataHandler,
                                data |-> ilpPrepare.value]>>
                 /\ Len(promises') = Len(promises) + 1
                 /\ SubSeq(promises', 1, Len(promises)) = promises
                 /\ promises'[Len(promises')] =
                      [kind |-> "handler", adapter |-> a, id |-> ev.id,
                       state |-> "pending", value |-> NoValue]
     /\ lastOp'.name = "dataHandlerSettles" =>
          LET i == lastOp'.promise IN
          /\ calls' # <<>>
          /\ \A k \in 1..Len(calls') :
               /\ calls'[k].fn \in {"fulfillCondition", "rejectIncomingTransfer"}
               /\ calls'[k].id = promises[i].id
          /\ \A j \in 1..Len(promises) : j # i => promises'[j] = promises[j]
    ]_vars

\* Two handler invocations overlapped: the one of transfer in1 started first and is
\* still pending, the one of transfer in2 started second and has completed, and the
\* acknowledgment just made is for in2.
C33_Witness ==
  /\ Len(promises) = 2
  /\ promises[1].kind = "handler" /\ promises[1].id = "in1" /\ promises[1].state = "pending"
  /\ promises[2].kind = "handler" /\ promises[2].id = "in2" /\ promises[2].state = "fulfilled"
  /\ lastOp.name = "dataHandlerSettles"
  /\ lastOp.promise = 2
  /\ calls # <<>>
  /\ calls[1].fn = "fulfillCondition"
  /\ calls[1].id = "in2"

\* C34: a promise of a prepare sendData goes from pending to settled only in a step
\* in which the V1 plugin emits outgoing_fulfill, outgoing_reject or outgoing_cancel
\* with the id of that send, or in which the promise its sendTransfer call returned
\* is rejected; no other step (the expiry passing, a disconnect event, a handler
\* registered or deregistered, another sendData, an event for another id) settles it.
C34_OnlyTerminalEvents ==
  [][\A i \in 1..Len(promises) :
       (/\ promises[i].kind = "prepare"
        /\ promises[i].state = "pending"
        /\ promises'[i].state # "pending") =>
         \/ /\ lastOp'.name = "sendTransferSettles"
            /\ lastOp'.promise = i
            /\ ~lastOp'.ok
         \/ /\ lastOp'.name = "emit"
            /\ lastOp'.type \in {"outgoing_fulfill", "outgoing_reject", "outgoing_cancel"}
            /\ \E ev \in AnswerEvents :
                 /\ ev.type = lastOp'.type
                 /\ ev.id = promises[i].id
                 /\ emit("v1", ev)
    ]_vars

\* The expiry of the first send has passed after the data handler was deregistered
\* and the V1 plugin emitted a terminal event for the second send: the second send
\* is settled, the first is still pending.
C34_Witness ==
  /\ lastOp.name = "expiryPasses"
  /\ lastOp.promise = 1
  /\ Len(promises) = 2
  /\ promises[1].kind = "prepare" /\ promises[1].state = "pending"
  /\ promises[2].state = "fulfilled"
  /\ history[1].data = "deregistered"

\* C35, as stated: the fulfill packet sendData returns for a 'peer.config' prepare
\* carries, after the account name, one byte that is the currency scale getInfo()
\* reports, 0 included, and then the currency getInfo() reports.
C35_AsStated ==
  (lastOp.name = "sendData" /\ lastOp.data = PeerConfigPrepare) =>
    LET packet == deserializeIlpFulfill(lastOp.value.bytes)
        name == ReadVar(packet.value.data)
        currency == ReadVar(Tail(name.rest))
    IN /\ lastOp.state = "fulfilled"
       /\ ~packet.threw
       /\ name.ok
       /\ Len(name.rest) >= 1
       /\ name.rest[1] = v1Info.currencyScale
       /\ currency.ok
       /\ currency.val = AsciiBytes(v1Info.currency)

\* C36, as stated: the handler called for an incoming_prepare is the one in the slot
\* when the V1 plugin emits the event; every incoming_prepare emitted after a
\* deregistration and before the next registration calls no handler and is rejected
\* with code T01; and when an invocation completes, the acknowledgment is the one
\* its handler's answer calls for, whatever has been registered or deregistered since.
C36_AsStated ==
  [][/\ \A ev \in IncomingPrepares :
          LET a == plugins["v1"].compat IN
          (lastOp'.name = "emit" /\ emit("v1", ev)) =>
            /\ \A k \in 1..Len(calls') :
                 calls'[k].fn = "dataHandler" =>
                   calls'[k].handler = adapters[a]._dataHandler
            /\ history[a].data = "deregistered" =>
                 /\ Len(calls') = 2
                 /\ calls'[1].fn = "getAccount"
                 /\ calls'[2].fn = "rejectIncomingTransfer"
                 /\ calls'[2].id = ev.id
                 /\ calls'[2].reason.code = "T01"
                 /\ promises' = promises
     /\ lastOp'.name = "dataHandlerSettles" =>
          calls' = acknowledge(promises[lastOp'.promise].id, lastOp'.outcome)
    ]_vars

\* The acknowledgment calls among the calls of the last operation.
AckCalls == {k \in 1..Len(calls) : calls[k].fn \in {"fulfillCondition", "rejectIncomingTransfer"}}

\* C37, as stated: the step that handles an incoming_prepare event either starts one
\* handler invocation and acknowledges nothing, or starts none and makes exactly one
\* acknowledgment call; and the step in which a handler invocation completes makes
\* exactly one acknowledgment call, for the id of its transfer; whether the
\* acknowledgment calls of the V1 plugin return or throw.
C37_AsStated ==
  /\ (lastOp.name = "emit" /\ lastOp.type = "incoming_prepare") =>
       IF \E k \in 1..Len(calls) : calls[k].fn = "dataHandler"
       THEN AckCalls = {}
       ELSE Cardinality(AckCalls) = 1
  /\ lastOp.name = "dataHandlerSettles" =>
       /\ Cardinality(AckCalls) = 1
       /\ \A k \in AckCalls : calls[k].id = lastOp.id

\* C38: when the V1 plugin emits the terminal event of a transfer from inside the
\* sendTransfer call of its sendData, the promise sendData returns is settled by that
\* event: fulfilled with the fulfill packet of an outgoing_fulfill, with the reject
\* packet of an outgoing_reject or outgoing_cancel; the entry of the transfer's id
\* is in the transfers table and sendTransfer was called once.
C38_StoredFirst ==
  lastOp.name = "sendDataAnswered" =>
    LET i == lastOp.promise
        a == lastOp.adapter
    IN /\ i = Len(promises)
       /\ Tracked(a, promises[i].id)
       /\ adapters[a].transfers[promises[i].id] = i
       /\ Cardinality(SendCalls) = 1
       /\ promises[i].state = "fulfilled"
       /\ lastOp.state = "fulfilled"
       /\ lastOp.value = promises[i].value
       /\ lastOp.value.type = "packet"
       /\ IF lastOp.answer = "outgoing_fulfill"
          THEN LET packet == deserializeIlpFulfill(lastOp.value.bytes) IN
               ~packet.threw /\ packet.value.fulfillment = <<1, 2>>
          ELSE LET packet == deserializeIlpReject(lastOp.value.bytes) IN
               ~packet.threw /\ packet.value.code = "T01"

\* The second send was fulfilled from inside its sendTransfer call while the first
\* send is still pending.
C38_Witness ==
  /\ lastOp.name = "sendDataAnswered"
  /\ lastOp.answer = "outgoing_fulfill"
  /\ lastOp.promise = 2
  /\ promises[2].state = "fulfilled"
  /\ promises[1].state = "pending"

\* C39: on a ledger with no default connector, sendData with a prepare packet whose
\* destination is not on the local ledger (or is empty) returns a promise rejected
\* with the error of _getTo; it calls neither sendTransfer nor sendRequest, and it
\* leaves every instance's transfers table and every promise as they were.
C39_RoutingFailure ==
  [][(/\ lastOp'.name = "sendData"
      /\ lastOp'.data \in {RemotePrepare, NoDestinationPrepare}
      /\ v1Info.connectors = <<>>) =>
       /\ lastOp'.state = "rejected"
       /\ lastOp'.value = ErrorValue("Error")
       /\ lastOp'.promise = 0
       /\ \A k \in 1..Len(calls') : calls'[k].fn \notin {"sendTransfer", "sendRequest"}
       /\ adapters' = adapters
       /\ promises' = promises
    ]_vars

\* On the ledger with no connector a send to another ledger has just failed, while
\* an earlier send to a local account is pending with its entry.
C39_Witness ==
  /\ lastOp.name = "sendData"
  /\ lastOp.data = RemotePrepare
  /\ lastOp.state = "rejected"
  /\ v1Info.connectors = <<>>
  /\ Len(promises) = 1
  /\ promises[1].state = "pending"
  /\ DOMAIN adapters[1].transfers = {promises[1].id}

\* C40: a wrapped V1 plugin has exactly one request handler, that of its Plugin
\* instance.  When the V1 plugin calls it with a request while no data handler is
\* registered, or with a request that has no ilp, the promise it returns is rejected
\* and no handler is called; otherwise the data handler is called once, with the
\* bytes the request's ilp decodes to, and when it answers with a Buffer the promise
\* is fulfilled with a response whose to is the request's from, whose from is the
\* request's to, whose ledger is the request's ledger and whose ilp decodes to the
\* handler's answer.  No step of this changes an instance (its transfers table
\* among it) or another promise.
C40_HandleRequest ==
  [][/\ plugins'["v1"].compat # 0 =>
          plugins'["v1"].requestHandlers = <<plugins'["v1"].compat>>
     /\ lastOp'.name = "request" =>
          LET a == lastOp'.adapter
              request == lastOp'.request
          IN /\ adapters' = adapters
             /\ SubSeq(promises', 1, Len(promises)) = promises
             /\ IF adapters[a]._dataHandler = None \/ request.ilp = ""
                THEN /\ lastOp'.state = "rejected"
                     /\ lastOp'.value.type = "error"
                     /\ calls' = <<>>
                     /\ promises' = promises
                ELSE /\ calls' = <<[fn |-> "dataHandler",
                                    handler |-> adapters[a]._dataHandler,
                                    data |-> fromBase64(request.ilp)]>>
                     /\ lastOp'.state = "pending"
                     /\ Len(promises') = Len(promises) + 1
     /\ lastOp'.name = "requestHandlerSettles" =>
          LET i == lastOp'.promise
              request == lastOp'.request
              outcome == lastOp'.outcome
          IN /\ adapters' = adapters
             /\ calls' = <<>>
             /\ \A j \in 1..Len(promises) : j # i => promises'[j] = promises[j]
             /\ (~outcome.threw /\ outcome.defined) =>
                  /\ promises'[i].state = "fulfilled"
                  /\ promises'[i].value.type = "message"
                  /\ LET response == promises'[i].value.message IN
                       /\ response.to = request.from
                       /\ response.from = request.to
                       /\ response.ledger = request.ledger
                       /\ fromBase64(response.ilp) = outcome.bytes
    ]_vars

\* The handler has answered a request that carried a prepare packet with a fulfill
\* packet, and the response goes back to g.a.bob; a send is pending with its entry.
C40_Witness ==
  /\ lastOp.name = "requestHandlerSettles"
  /\ lastOp.request.ilp = base64url(PreparePacket("g.a.me.x"))
  /\ Len(promises) = 2
  /\ promises[1].kind = "prepare" /\ promises[1].state = "pending"
  /\ Tracked(1, promises[1].id)
  /\ promises[2].state = "fulfilled"
  /\ promises[2].value.type = "message"
  /\ promises[2].value.message.to = "g.a.bob"
  /\ promises[2].value.message.from = "g.a.me"
  /\ promises[2].value.message.ilp = "DQIBAgEF"

====
